---- MODULE Spec2Model ----
(***************************************************************************)
(* The OpenAPI -> MCPresso generator of granular-software/mcpresso         *)
(* (src/cli/generator.ts, src/cli/openapi-parser.ts,                       *)
(* src/cli/schema-converter.ts) as a state machine.                        *)
(*                                                                         *)
(* Strings the code transforms character by character (paths, schema       *)
(* names, resource names, identifiers) are sequences of one-character      *)
(* strings; JavaScript objects are records whose fields are present        *)
(* exactly when the property is present in the object.  Text the code      *)
(* only copies or compares as a whole is a TLA+ string.                    *)
(***************************************************************************)
EXTENDS Integers, Sequences, FiniteSets, TLC

VARIABLES
    pc,             \* position of generateFromOpenAPI: "convert", "generate", "write", "done"
    rawSchemas,     \* parsed.spec.components.schemas: sequence of [name, schema] in document order
    operations,     \* parsed.operations: sequence of operation records in document order
    schemas,        \* generateFromOpenAPI's `schemas`: sequence of [name, schema] (translated)
    cursor,         \* index of the next entry of components.schemas to translate
    schemaFiles,    \* generateMCPServerCode's schemaFiles: sequence of [file, exportVar, name, body]
    resourceGroups, \* generateMCPServerCode's resourceGroups: sequence of [name, ops]
    resourceFiles,  \* generateMCPServerCode's resourceFiles: sequence of resource-module records
    allWarnings,    \* generateMCPServerCode's allWarnings: the warnings of the used schemas
    strictMode,     \* SchemaConversionOptions.strictMode
    converterWarnings, \* convertOpenAPISchemasToZod's `warnings` array
    source,         \* what GenerateOptions.source designates: [kind] or [kind, spec]
    verbose,        \* GenerateOptions.verbose
    thrown,         \* the error generateFromOpenAPI has thrown, or NoError
    disk,           \* the output directory: set of [path, content]
    console,        \* the lines logged in verbose mode about drops and written files
    runs,           \* number of completed runs of generateFromOpenAPI
    firstRun,       \* the output directory as the first run left it
    handled,        \* the HTTP requests the app has answered: sequence of [request, response, transport]
                    \* (Hono app) or [request, response, invocations] (Express app)
    openTransports, \* the transports of the POST /mcp requests still waiting for "close"
    connected,      \* the transport the shared McpServer is connected to (0: none)
    resRaw,         \* whether `c.res.raw` is the node response object
    config,         \* the MCPServerConfig createMCPServer is called with
    registered,     \* what createMCPServer has registered on the McpServer: sequence of [kind, name]
    stream          \* the call of start-notification-stream: [count, counter, notifications, errors]

converterVars == <<strictMode, converterWarnings>>
runVars == <<source, verbose, thrown, disk, console, runs, firstRun>>
mcpVars == <<config, registered, stream>>
serverVars == <<handled, openTransports, connected, resRaw, mcpVars>>
vars == <<pc, rawSchemas, operations, schemas, cursor, schemaFiles, resourceGroups,
          resourceFiles, allWarnings, converterVars, runVars, serverVars>>

(***************************************************************************)
(* Characters and the string functions of generator.ts                     *)
(***************************************************************************)
UpperChars == <<"A","B","C","D","E","F","G","H","I","J","K","L","M",
                "N","O","P","Q","R","S","T","U","V","W","X","Y","Z">>
LowerChars == <<"a","b","c","d","e","f","g","h","i","j","k","l","m",
                "n","o","p","q","r","s","t","u","v","w","x","y","z">>
DigitChars == <<"0","1","2","3","4","5","6","7","8","9">>

Range(s) == { s[i] : i \in DOMAIN s }
IsUpper(c) == c \in Range(UpperChars)
IsLower(c) == c \in Range(LowerChars)
IsDigit(c) == c \in Range(DigitChars)
IsAlnum(c) == IsUpper(c) \/ IsLower(c) \/ IsDigit(c)
\* \w of a JavaScript regular expression
IsWordChar(c) == IsAlnum(c) \/ c = "_"
\* [-_\s] of toSnakeCase / toCamelCase
IsSeparator(c) == c \in {"-", "_", " "}

IndexIn(c, s) == CHOOSE i \in DOMAIN s : s[i] = c
toLowerChar(c) == IF IsUpper(c) THEN LowerChars[IndexIn(c, UpperChars)] ELSE c
toUpperChar(c) == IF IsLower(c) THEN UpperChars[IndexIn(c, LowerChars)] ELSE c

\* String.prototype.toLowerCase
toLowerCase(s) == [i \in DOMAIN s |-> toLowerChar(s[i])]

\* s.startsWith(c) for a one-character c
startsWith(s, c) == Len(s) > 0 /\ s[1] = c

RECURSIVE FlattenSeq(_)
FlattenSeq(ss) == IF ss = <<>> THEN <<>> ELSE Head(ss) \o FlattenSeq(Tail(ss))

\* s.replace(/[^a-zA-Z0-9_]/g, '_')
toValidIdentifier(name) == [i \in DOMAIN name |-> IF IsWordChar(name[i]) THEN name[i] ELSE "_"]

\* s.replace(/[^a-zA-Z0-9]/g, '')
StripNonAlnum(s) == SelectSeq(s, IsAlnum)

\* s.split('/')
RECURSIVE splitSlash(_, _)
splitSlash(s, cur) ==
    IF s = <<>> THEN <<cur>>
    ELSE IF Head(s) = "/" THEN <<cur>> \o splitSlash(Tail(s), <<>>)
    ELSE splitSlash(Tail(s), Append(cur, Head(s)))

\* extractRefName of generator.ts: last part of the reference, non-alphanumerics removed
extractRefName(ref) ==
    LET parts == splitSlash(ref, <<>>)
    IN  StripNonAlnum(parts[Len(parts)])

\* s.replace(/[-_\s]+/g, '_'): every run of separators becomes one underscore
RECURSIVE collapseSeparators(_, _)
collapseSeparators(s, inRun) ==
    IF s = <<>> THEN <<>>
    ELSE IF IsSeparator(Head(s))
         THEN (IF inRun THEN <<>> ELSE <<"_">>) \o collapseSeparators(Tail(s), TRUE)
         ELSE <<Head(s)>> \o collapseSeparators(Tail(s), FALSE)

\* toSnakeCase of generator.ts
toSnakeCase(str) ==
    LET s1 == FlattenSeq([i \in DOMAIN str |->
                  IF IsUpper(str[i]) THEN <<"_", str[i]>> ELSE <<str[i]>>])
        s2 == toLowerCase(s1)
        s3 == IF startsWith(s2, "_") THEN Tail(s2) ELSE s2
        s4 == collapseSeparators(s3, FALSE)
    IN  IF Len(s4) > 0 /\ s4[Len(s4)] = "_" THEN SubSeq(s4, 1, Len(s4) - 1) ELSE s4

\* toPascalCase of generator.ts: [-_] -> ' ', first character of every word
\* upper-cased (/\b\w/g), whitespace removed
toPascalCase(str) ==
    LET s1 == [i \in DOMAIN str |-> IF str[i] \in {"-", "_"} THEN " " ELSE str[i]]
        s2 == [i \in DOMAIN s1 |->
                  IF IsWordChar(s1[i]) /\ (i = 1 \/ ~IsWordChar(s1[i - 1]))
                  THEN toUpperChar(s1[i]) ELSE s1[i]]
    IN  SelectSeq(s2, LAMBDA c : c # " ")

\* toCamelCase of generator.ts: separators dropped, the character after a run
\* upper-cased, first character lower-cased
RECURSIVE camelBody(_, _)
camelBody(s, afterSep) ==
    IF s = <<>> THEN <<>>
    ELSE IF IsSeparator(Head(s)) THEN camelBody(Tail(s), TRUE)
    ELSE <<IF afterSep THEN toUpperChar(Head(s)) ELSE Head(s)>> \o camelBody(Tail(s), FALSE)

toCamelCase(str) ==
    LET s1 == camelBody(str, FALSE)
    IN  IF s1 = <<>> THEN s1 ELSE <<toLowerChar(s1[1])>> \o Tail(s1)

(***************************************************************************)
(* JavaScript objects: a property is present iff the record has the field  *)
(***************************************************************************)
Has(obj, f) == f \in DOMAIN obj

\* Map.get on a sequence of [name, ...] entries with distinct names
HasName(entries, n) == \E i \in DOMAIN entries : entries[i].name = n
GetByName(entries, n) == entries[CHOOSE i \in DOMAIN entries : entries[i].name = n]
NamesOf(entries) == { entries[i].name : i \in DOMAIN entries }

(***************************************************************************)
(* openapi-parser.ts: parseOpenAPI, validateOpenAPI, extractOpenAPIData    *)
(***************************************************************************)
NoError == [none |-> TRUE]

\* s.startsWith(prefix)
startsWithPrefix(s, prefix) ==
    Len(s) >= Len(prefix) /\ \A i \in DOMAIN prefix : s[i] = prefix[i]

validateOpenAPI_SchemasRequired(spec) ==
    (IF ~Has(spec, "openapi") \/ spec.openapi = <<>>
         \/ ~startsWithPrefix(spec.openapi, <<"3", ".">>)
     THEN <<"OpenAPI specification must be version 3.x">> ELSE <<>>)
    \o (IF ~Has(spec, "info")
        THEN <<"OpenAPI specification must have an info object">> ELSE <<>>)
    \o (IF ~Has(spec, "paths") \/ Len(spec.paths) = 0
        THEN <<"OpenAPI specification must have at least one path">> ELSE <<>>)
    \o (IF ~Has(spec, "components") \/ ~Has(spec.components, "schemas")
        THEN <<"OpenAPI specification must have schemas">> ELSE <<>>)

\* validateOpenAPI: the errors it collects; it throws when there is one
validateOpenAPI(spec) ==
    (IF ~Has(spec, "openapi") \/ spec.openapi = <<>>
         \/ ~startsWithPrefix(spec.openapi, <<"3", ".">>)
     THEN <<"OpenAPI specification must be version 3.x">> ELSE <<>>)
    \o (IF ~Has(spec, "info")
        THEN <<"OpenAPI specification must have an info object">> ELSE <<>>)
    \o (IF ~Has(spec, "paths") \/ Len(spec.paths) = 0
        THEN <<"OpenAPI specification must have at least one path">> ELSE <<>>)

\* method.toUpperCase() of a path-item key
UpperMethod(key) ==
    CASE key = "get" -> "GET" [] key = "post" -> "POST" [] key = "put" -> "PUT"
      [] key = "delete" -> "DELETE" [] key = "patch" -> "PATCH"
      [] key = "head" -> "HEAD" [] key = "options" -> "OPTIONS"
      [] key = "x-internal" -> "X-INTERNAL"

\* a value of a path item that is an object and not an array
IsPlainObject(value) == ~Has(value, "text") /\ ~Has(value, "array")

\* the operations of one path item, in the order of its keys
OperationsOfItem(path, item) ==
    LET kept == SelectSeq(item, LAMBDA e : e.key # "$ref" /\ IsPlainObject(e.value))
    IN  [i \in DOMAIN kept |->
           [f \in DOMAIN kept[i].value \cup {"method", "path"} |->
               IF f = "method" THEN UpperMethod(kept[i].key)
               ELSE IF f = "path" THEN path
               ELSE kept[i].value[f]]]

\* extractOpenAPIData: the operations of the document
extractOpenAPIData(spec) ==
    IF ~Has(spec, "paths") THEN <<>>
    ELSE FlattenSeq([i \in DOMAIN spec.paths |->
                       OperationsOfItem(spec.paths[i].path, spec.paths[i].item)])

\* parsed.spec.components.schemas, as generateFromOpenAPI reads it
ComponentSchemas(spec) ==
    IF Has(spec, "components") /\ Has(spec.components, "schemas")
    THEN spec.components.schemas ELSE <<>>

parseOpenAPI_NoValidation(src) ==
    IF src.kind = "unreachable" THEN [thrown |-> TRUE, cause |-> <<"read failed">>]
    ELSE IF src.kind = "undecodable" THEN [thrown |-> TRUE, cause |-> <<"decode failed">>]
    ELSE [thrown |-> FALSE, spec |-> src.spec, operations |-> extractOpenAPIData(src.spec)]

\* parseOpenAPI: the source is fetched or read, decoded, validated and
\* flattened; every failure is rethrown as "OpenAPI parsing failed"
parseOpenAPI(src) ==
    IF src.kind = "unreachable" THEN [thrown |-> TRUE, cause |-> <<"read failed">>]
    ELSE IF src.kind = "undecodable" THEN [thrown |-> TRUE, cause |-> <<"decode failed">>]
    ELSE IF validateOpenAPI(src.spec) # <<>>
    THEN [thrown |-> TRUE, cause |-> validateOpenAPI(src.spec)]
    ELSE [thrown |-> FALSE, spec |-> src.spec, operations |-> extractOpenAPIData(src.spec)]

\* Step 1 of generateFromOpenAPI
ParseOpenAPI ==
    /\ pc = "parse"
    /\ LET parsed == parseOpenAPI(source)
       IN  IF parsed.thrown
           THEN /\ pc' = "failed"
                /\ thrown' = [message |-> "OpenAPI parsing failed", cause |-> parsed.cause]
                /\ UNCHANGED <<rawSchemas, operations>>
           ELSE /\ pc' = "convert"
                /\ rawSchemas' = ComponentSchemas(parsed.spec)
                /\ operations' = parsed.operations
                /\ UNCHANGED thrown
    /\ UNCHANGED <<schemas, cursor, schemaFiles, resourceGroups, resourceFiles, allWarnings,
                   converterVars, source, verbose, disk, console, runs, firstRun, serverVars>>

(***************************************************************************)
(* Step 2 of generateFromOpenAPI: translation of components.schemas        *)
(***************************************************************************)
\* Depth of the JavaScript call stack available to the recursive translation
StackLimit == 12

\* "RangeError: Maximum call stack size exceeded", as a value
StackOverflow == [throw |-> "RangeError"]
IsThrow(v) == Has(v, "throw")

ZAny == [z |-> "any"]
\* z.lazy(() => z.object({}).passthrough())
ZLazy == [z |-> "lazy"]
ZOptional(inner) == [z |-> "optional", innerType |-> inner]

\* A thrown exception of any element propagates out of the map
AnyThrow(zs) == \E i \in DOMAIN zs : IsThrow(zs[i])

\* z.union([...]) / first member / z.any() of the oneOf/anyOf branch
ZUnionOf(zs) ==
    IF AnyThrow(zs) THEN StackOverflow
    ELSE IF Len(zs) >= 2 THEN [z |-> "union", options |-> zs]
    ELSE IF Len(zs) = 1 THEN zs[1] ELSE ZAny

\* z.intersection(a, b) / first member / z.any() of the allOf branch
ZIntersectionOf(zs) ==
    IF AnyThrow(zs) THEN StackOverflow
    ELSE IF Len(zs) >= 2 THEN [z |-> "intersection", left |-> zs[1], right |-> zs[2]]
    ELSE IF Len(zs) = 1 THEN zs[1] ELSE ZAny

\* the string case of the switch
ZStringOf(s) ==
    IF Has(s, "enum") THEN [z |-> "enum", values |-> s.enum]
    ELSE [z |-> "string"]

\* the object case: z.object(shape), made readonly when the flag is set
ZObjectOf(s, zs, readonly) ==
    IF AnyThrow(zs) THEN StackOverflow
    ELSE LET shape == [i \in DOMAIN zs |->
                 [key   |-> s.properties[i].key,
                  value |-> IF Has(s, "required") /\ s.properties[i].key \in Range(s.required)
                            THEN zs[i] ELSE ZOptional(zs[i])]]
             obj == [z |-> "object", shape |-> shape]
         IN  IF readonly THEN [z |-> "readonly", innerType |-> obj] ELSE obj

\* convertZodToOpenAPI of generator.ts; depth is the number of frames in use
RECURSIVE convertZodToOpenAPI(_, _, _, _)
convertZodToOpenAPI(s, allSchemas, readonly, depth) ==
    IF depth > StackLimit THEN StackOverflow
    ELSE IF Has(s, "ref") THEN
        LET refName == extractRefName(s.ref)
        IN  IF HasName(allSchemas, refName)
            THEN convertZodToOpenAPI(GetByName(allSchemas, refName).schema,
                                     allSchemas, readonly, depth + 1)
            ELSE ZLazy
    ELSE IF Has(s, "type") /\ s.type = "string" THEN ZStringOf(s)
    ELSE IF Has(s, "type") /\ s.type \in {"number", "integer"} THEN [z |-> "number"]
    ELSE IF Has(s, "type") /\ s.type = "boolean" THEN [z |-> "boolean"]
    ELSE IF Has(s, "type") /\ s.type = "array" THEN
        IF Has(s, "items")
        THEN LET item == convertZodToOpenAPI(s.items, allSchemas, readonly, depth + 1)
             IN  IF IsThrow(item) THEN StackOverflow ELSE [z |-> "array", type |-> item]
        ELSE [z |-> "array", type |-> ZAny]
    ELSE IF Has(s, "type") /\ s.type = "object" THEN
        IF Has(s, "properties")
        THEN ZObjectOf(s, [i \in DOMAIN s.properties |->
                             convertZodToOpenAPI(s.properties[i].schema, allSchemas,
                                                 readonly, depth + 1)], readonly)
        ELSE [z |-> "record"]
    ELSE IF Has(s, "oneOf") \/ Has(s, "anyOf") THEN
        LET members == IF Has(s, "oneOf") THEN s.oneOf ELSE s.anyOf
        IN  ZUnionOf([i \in DOMAIN members |->
                        convertZodToOpenAPI(members[i], allSchemas, readonly, depth + 1)])
    ELSE IF Has(s, "allOf") THEN
        ZIntersectionOf([i \in DOMAIN s.allOf |->
                           convertZodToOpenAPI(s.allOf[i], allSchemas, readonly, depth + 1)])
    ELSE ZAny

\* One iteration of the loop over Object.entries(components.schemas): the
\* translation is pushed to `schemas`, or dropped when it throws (try/catch)
ConvertSchema ==
    /\ pc = "convert"
    /\ cursor <= Len(rawSchemas)
    /\ LET entry == rawSchemas[cursor]
           zodSchema == convertZodToOpenAPI(entry.schema, rawSchemas, FALSE, 1)
       IN  schemas' = IF IsThrow(zodSchema) THEN schemas
                      ELSE Append(schemas, [name |-> entry.name, schema |-> zodSchema])
    /\ cursor' = cursor + 1
    /\ UNCHANGED <<pc, rawSchemas, operations, schemaFiles, resourceGroups, resourceFiles,
                   allWarnings, converterVars, runVars, serverVars>>

(***************************************************************************)
(* findUsedSchemas: the schemas referenced by the operations               *)
(***************************************************************************)
\* operation.operation.requestBody.content['application/json'].schema and
\* response.content['application/json'].schema: the field is present iff
\* the whole chain is
HasJsonSchema(x) == Has(x, "schema")

RECURSIVE collectReferencedSchemas(_, _, _)
RECURSIVE collectAll(_, _, _)
\* st = [used |-> usedSchemaNames, visited |-> visited]; allSchemas is the Map
\* built from the translated `schemas` entries
collectReferencedSchemas(schema, st, allSchemas) ==
    IF Has(schema, "ref") /\ schema.ref \in st.visited THEN st
    ELSE
      LET st1 == IF Has(schema, "ref")
                 THEN LET schemaName == extractRefName(schema.ref)
                          marked == [used    |-> st.used \cup {schemaName},
                                     visited |-> st.visited \cup {schema.ref}]
                      IN  IF HasName(allSchemas, schemaName)
                          THEN collectReferencedSchemas(GetByName(allSchemas, schemaName),
                                                        marked, allSchemas)
                          ELSE marked
                 ELSE st
          st2 == IF Has(schema, "properties")
                 THEN collectAll([i \in DOMAIN schema.properties |->
                                    schema.properties[i].schema], st1, allSchemas)
                 ELSE st1
          st3 == IF Has(schema, "items")
                 THEN collectReferencedSchemas(schema.items, st2, allSchemas) ELSE st2
          st4 == IF Has(schema, "oneOf") THEN collectAll(schema.oneOf, st3, allSchemas) ELSE st3
          st5 == IF Has(schema, "anyOf") THEN collectAll(schema.anyOf, st4, allSchemas) ELSE st4
      IN  IF Has(schema, "allOf") THEN collectAll(schema.allOf, st5, allSchemas) ELSE st5

collectAll(ss, st, allSchemas) ==
    IF ss = <<>> THEN st
    ELSE collectAll(Tail(ss), collectReferencedSchemas(Head(ss), st, allSchemas), allSchemas)

\* variant that reads the request body only and skips the responses
OperationSchemas_RequestBodyOnly(op) ==
    IF Has(op, "requestBody") /\ HasJsonSchema(op.requestBody)
    THEN <<op.requestBody.schema>> ELSE <<>>

\* The schemas an operation hands to collectReferencedSchemas, each with a
\* fresh visited set: the request body, then every response
OperationSchemas(op) ==
    (IF Has(op, "requestBody") /\ HasJsonSchema(op.requestBody)
     THEN <<op.requestBody.schema>> ELSE <<>>)
    \o (IF Has(op, "responses")
        THEN LET withSchema == SelectSeq(op.responses, HasJsonSchema)
             IN  [i \in DOMAIN withSchema |-> withSchema[i].schema]
        ELSE <<>>)

usedSchemaNames(ops, translated) ==
    UNION { UNION { collectReferencedSchemas(OperationSchemas(ops[i])[j],
                        [used |-> {}, visited |-> {}], translated).used
                    : j \in DOMAIN OperationSchemas(ops[i]) }
            : i \in DOMAIN ops }

\* schemas.filter(schema => usedSchemaNames.has(schema.name))
findUsedSchemas(ops, translated) ==
    LET used == usedSchemaNames(ops, translated)
    IN  SelectSeq(translated, LAMBDA e : e.name \in used)

(***************************************************************************)
(* findPrimarySchemaForResource and findSchemaForMethod                    *)
(***************************************************************************)
\* "no schema": the null the functions return
NoSchema == <<>>

extractSchemaFromRef(schema) ==
    IF Has(schema, "ref") THEN extractRefName(schema.ref) ELSE NoSchema

extractSchemaFromArray(schema) ==
    IF Has(schema, "type") /\ schema.type = "array" /\ Has(schema, "items")
    THEN extractSchemaFromRef(schema.items) ELSE NoSchema

\* names of the $ref members of oneOf / anyOf, in order
extractSchemaFromUnion(schema) ==
    IF Has(schema, "oneOf") \/ Has(schema, "anyOf")
    THEN LET members == IF Has(schema, "oneOf") THEN schema.oneOf ELSE schema.anyOf
             named == SelectSeq(members, LAMBDA m : extractSchemaFromRef(m) # NoSchema)
         IN  [i \in DOMAIN named |-> extractSchemaFromRef(named[i])]
    ELSE <<>>

\* Object.entries of an object with integer-like keys: ascending key order
RECURSIVE SortByCode(_)
SortByCode(rs) ==
    IF rs = <<>> THEN <<>>
    ELSE LET m == CHOOSE i \in DOMAIN rs : \A j \in DOMAIN rs : rs[i].code <= rs[j].code
         IN  <<rs[m]>> \o SortByCode(SubSeq(rs, 1, m - 1) \o SubSeq(rs, m + 1, Len(rs)))

ObjectEntries(responses) == SortByCode(responses)

HasCode(responses, c) == \E i \in DOMAIN responses : responses[i].code = c
ResponseOf(responses, c) == responses[CHOOSE i \in DOMAIN responses : responses[i].code = c]

\* statusCode.startsWith('2') && statusCode !== '200', for three-digit codes
IsOtherSuccess(code) == code \div 100 = 2 /\ code # 200

\* first element of a sequence of names that is a known schema, or NoSchema
FirstKnown(names, allSchemas) ==
    LET known == SelectSeq(names, LAMBDA n : n # NoSchema /\ HasName(allSchemas, n))
    IN  IF known = <<>> THEN NoSchema ELSE known[1]

\* variant without the array check
SchemaOfResponse_NoArrayUnwrap(schema, allSchemas) ==
    FirstKnown(<<extractSchemaFromRef(schema)>> \o extractSchemaFromUnion(schema), allSchemas)

\* the three checks on one response schema: direct reference, array of a
\* reference, union members, in this order
SchemaOfResponse(schema, allSchemas) ==
    FirstKnown(<<extractSchemaFromRef(schema), extractSchemaFromArray(schema)>>
               \o extractSchemaFromUnion(schema), allSchemas)

\* the body of the loop of findPrimarySchemaForResource for one operation
PrimaryOfOperation(op, allSchemas) ==
    IF ~Has(op, "responses") THEN NoSchema
    ELSE
      LET responses == op.responses
          from200 == IF HasCode(responses, 200) /\ HasJsonSchema(ResponseOf(responses, 200))
                     THEN SchemaOfResponse(ResponseOf(responses, 200).schema, allSchemas)
                     ELSE NoSchema
          others == SelectSeq(ObjectEntries(responses),
                              LAMBDA r : IsOtherSuccess(r.code) /\ HasJsonSchema(r))
      IN  IF from200 # NoSchema THEN from200
          ELSE FirstKnown([i \in DOMAIN others |->
                              SchemaOfResponse(others[i].schema, allSchemas)], allSchemas)

\* findPrimarySchemaForResource: the first operation, in order, that yields a schema
findPrimarySchemaForResource(ops, allSchemas) ==
    FirstKnown([i \in DOMAIN ops |-> PrimaryOfOperation(ops[i], allSchemas)], allSchemas)

\* direct reference, then array of a reference (no union check here)
MethodSchemaOf(schema, allSchemas) ==
    FirstKnown(<<extractSchemaFromRef(schema), extractSchemaFromArray(schema)>>, allSchemas)

\* findSchemaForMethod: response schema for get, request body for post/put
findSchemaForMethod(op, allSchemas, httpMethod) ==
    IF httpMethod = "get" THEN
        IF ~Has(op, "responses") THEN NoSchema
        ELSE LET responses == op.responses
                 from200 == IF HasCode(responses, 200) /\ HasJsonSchema(ResponseOf(responses, 200))
                            THEN MethodSchemaOf(ResponseOf(responses, 200).schema, allSchemas)
                            ELSE NoSchema
                 others == SelectSeq(ObjectEntries(responses),
                                     LAMBDA r : IsOtherSuccess(r.code) /\ HasJsonSchema(r))
             IN  IF from200 # NoSchema THEN from200
                 ELSE FirstKnown([i \in DOMAIN others |->
                                     MethodSchemaOf(others[i].schema, allSchemas)], allSchemas)
    ELSE IF httpMethod \in {"post", "put"} THEN
        IF Has(op, "requestBody") /\ HasJsonSchema(op.requestBody)
        THEN MethodSchemaOf(op.requestBody.schema, allSchemas)
        ELSE NoSchema
    ELSE NoSchema

(***************************************************************************)
(* serializeZodSchema / serializeZodType: the emitted schema source, as    *)
(* the expression tree of the text                                         *)
(***************************************************************************)
RECURSIVE serializeZodType(_)
serializeZodType(zod) ==
    CASE zod.z = "string"   -> [code |-> "z.string()"]
      [] zod.z = "number"   -> [code |-> "z.number()"]
      [] zod.z = "boolean"  -> [code |-> "z.boolean()"]
      [] zod.z = "array"    -> [code |-> "z.array()", arg |-> serializeZodType(zod.type)]
      [] zod.z = "optional" -> [code |-> ".optional()", arg |-> serializeZodType(zod.innerType)]
      [] zod.z = "readonly" -> [code |-> ".readonly()", arg |-> serializeZodType(zod.innerType)]
      [] zod.z = "union"    -> [code |-> "z.union()",
                                args |-> [i \in DOMAIN zod.options |->
                                            serializeZodType(zod.options[i])]]
      [] zod.z = "enum"     -> [code |-> "z.enum()", values |-> zod.values]
      [] OTHER              -> [code |-> "z.any()"]

serializeZodSchema(zod) ==
    IF zod.z = "object"
    THEN [code |-> "z.object()",
          properties |-> [i \in DOMAIN zod.shape |->
                            [key |-> zod.shape[i].key,
                             value |-> serializeZodType(zod.shape[i].value)]]]
    ELSE serializeZodType(zod)

(***************************************************************************)
(* groupOperationsByResource                                               *)
(***************************************************************************)
\* path.replace(/^\//, '').split('/')
PathParts(path) == splitSlash(IF startsWith(path, "/") THEN Tail(path) ELSE path, <<>>)

IsParam(part) == startsWith(part, "{")

\* variant that names every path after its first segment
RawResourceName_FirstSegment(parts) == toLowerCase(parts[1])

\* the if/else chain that picks the resource name from the path's parts
RawResourceName(parts) ==
    IF Len(parts) = 1 THEN toLowerCase(parts[1])
    ELSE IF Len(parts) = 2 /\ IsParam(parts[2]) THEN toLowerCase(parts[1])
    ELSE IF Len(parts) >= 3 /\ IsParam(parts[2]) /\ ~IsParam(parts[3])
         THEN toLowerCase(parts[1] \o <<"_">> \o parts[3])
    ELSE IF Len(parts) >= 3 /\ IsParam(parts[3])
         THEN toLowerCase(parts[1] \o <<"_">> \o parts[2])
    ELSE toLowerCase(parts[1])

\* the key under which an operation is grouped
ResourceNameOf(path) == toValidIdentifier(toSnakeCase(RawResourceName(PathParts(path))))

\* 'resource', 'api' and '' are skipped
IsProblematicName(n) ==
    n \in { <<"r","e","s","o","u","r","c","e">>, <<"a","p","i">>, <<>> }

\* groups, as a sequence of [name, ops] in order of first insertion
RECURSIVE groupInto(_, _)
groupInto(ops, groups) ==
    IF ops = <<>> THEN groups
    ELSE LET n == ResourceNameOf(Head(ops).path)
         IN  IF IsProblematicName(n) THEN groupInto(Tail(ops), groups)
             ELSE IF HasName(groups, n)
             THEN groupInto(Tail(ops),
                    [i \in DOMAIN groups |->
                        IF groups[i].name = n
                        THEN [groups[i] EXCEPT !.ops = Append(@, Head(ops))]
                        ELSE groups[i]])
             ELSE groupInto(Tail(ops), Append(groups, [name |-> n, ops |-> <<Head(ops)>>]))

groupOperationsByResource(ops) == groupInto(ops, <<>>)

\* the console.log of the skip branch, which runs in verbose mode only
SkippedLog(ops) ==
    LET skipped == SelectSeq(ops, LAMBDA op : IsProblematicName(ResourceNameOf(op.path)))
    IN  [i \in DOMAIN skipped |->
           [line |-> "Skipping problematic resource name",
            name |-> ResourceNameOf(skipped[i].path), path |-> skipped[i].path]]

(***************************************************************************)
(* generateResourceCode                                                    *)
(***************************************************************************)
SchemaSuffix == <<"S","c","h","e","m","a">>

\* method.toLowerCase() of the upper-cased verb of extractOpenAPIData
LowerMethod(m) ==
    CASE m = "GET" -> "get" [] m = "POST" -> "post" [] m = "PUT" -> "put"
      [] m = "DELETE" -> "delete" [] m = "PATCH" -> "patch"
      [] m = "HEAD" -> "head" [] m = "OPTIONS" -> "options"
      [] m = "X-INTERNAL" -> "x-internal"

\* groupOperationsByMethod: only get, post, put and delete have a bucket
groupOperationsByMethod(ops, httpMethod) ==
    SelectSeq(ops, LAMBDA op : LowerMethod(op.method) = httpMethod)

\* methodMap, in its iteration order
methodMap ==
    << [http |-> "get",    mcp |-> "get"],
       [http |-> "post",   mcp |-> "create"],
       [http |-> "put",    mcp |-> "update"],
       [http |-> "delete", mcp |-> "delete"] >>

\* `${toValidIdentifier(schemaName)}Schema`, or the fallback z.object({ id: z.string() })
SchemaRefOf(schemaName) ==
    IF schemaName # NoSchema
    THEN [ident |-> toValidIdentifier(schemaName) \o SchemaSuffix, name |-> schemaName]
    ELSE [fallback |-> "z.object({ id: z.string() })"]

\* generateMethodSpecificSchema: the reference, with .readonly() for get
generateMethodSpecificSchema(schemaName, httpMethod) ==
    [ident    |-> toValidIdentifier(schemaName) \o SchemaSuffix,
     name     |-> schemaName,
     readonly |-> (httpMethod = "get")]

\* one entry of methodEntries: the first operation of the verb's bucket
MethodEntry(m, ops, allSchemas) ==
    LET operation == groupOperationsByMethod(ops, m.http)[1]
        methodSchemaName == findSchemaForMethod(operation, allSchemas, m.http)
        methodSchema == IF methodSchemaName # NoSchema
                        THEN generateMethodSpecificSchema(methodSchemaName, m.http)
                        ELSE [fallback |-> "z.object({ id: z.string() })"]
    IN  IF m.http = "delete"
        THEN [slot |-> m.mcp, operation |-> operation]
        ELSE [slot |-> m.mcp, operation |-> operation, inputSchema |-> methodSchema]

methodEntries(ops, allSchemas) ==
    LET present == SelectSeq(methodMap, LAMBDA m : groupOperationsByMethod(ops, m.http) # <<>>)
    IN  [i \in DOMAIN present |-> MethodEntry(present[i], ops, allSchemas)]

\* Array.from(new Set(lines)): first occurrences, in order
RECURSIVE Dedupe(_, _)
Dedupe(xs, seen) ==
    IF xs = <<>> THEN <<>>
    ELSE IF Head(xs) \in seen THEN Dedupe(Tail(xs), seen)
    ELSE <<Head(xs)>> \o Dedupe(Tail(xs), seen \cup {Head(xs)})

\* `import { ${toPascalCase(n)}Schema } from '../schemas/${toPascalCase(n)}.js'`
ImportLine(schemaName) ==
    [symbol |-> toPascalCase(schemaName) \o SchemaSuffix, module |-> toPascalCase(schemaName)]

\* does getSchemaImports look up a schema for this operation
OperationHasContent(op) ==
    \/ Has(op, "responses") /\ \E i \in DOMAIN op.responses : HasJsonSchema(op.responses[i])
    \/ Has(op, "requestBody") /\ HasJsonSchema(op.requestBody)

\* getSchemaImports
getSchemaImports(ops, allSchemas) ==
    LET found == SelectSeq(ops, LAMBDA op :
                     OperationHasContent(op)
                     /\ findPrimarySchemaForResource(<<op>>, allSchemas) # NoSchema)
    IN  Dedupe([i \in DOMAIN found |->
                  ImportLine(findPrimarySchemaForResource(<<found[i]>>, allSchemas))], {})

\* the warnings generateResourceCode collects: one when the resource has no
\* schema, then one from generateHandlerCode for every method entry whose
\* operation has none
resourceWarnings(resourceName, ops, allSchemas) ==
    LET entries == methodEntries(ops, allSchemas)
        bare == SelectSeq(entries, LAMBDA e :
                    findPrimarySchemaForResource(<<e.operation>>, allSchemas) = NoSchema)
    IN  (IF findPrimarySchemaForResource(ops, allSchemas) = NoSchema
         THEN << [warning |-> "No schema found for resource", resource |-> resourceName] >>
         ELSE <<>>)
        \o [i \in DOMAIN bare |->
              [warning |-> "No schema found for operation", operation |-> bare[i].operation]]

\* generateResourceCode: the parts of the emitted module
generateResourceCode(resourceName, snakeCaseName, ops, allSchemas) ==
    [name     |-> snakeCaseName,
     schema   |-> SchemaRefOf(findPrimarySchemaForResource(ops, allSchemas)),
     methods  |-> methodEntries(ops, allSchemas),
     imports  |-> getSchemaImports(ops, allSchemas),
     warnings |-> resourceWarnings(resourceName, ops, allSchemas)]

(***************************************************************************)
(* generateMCPServerCode                                                   *)
(***************************************************************************)
\* files[key] = value on an object kept as a sequence of entries: a known key
\* keeps its place and gets the new value
PutFile(files, entry) ==
    IF \E i \in DOMAIN files : files[i].file = entry.file
    THEN [i \in DOMAIN files |-> IF files[i].file = entry.file THEN entry ELSE files[i]]
    ELSE Append(files, entry)

RECURSIVE PutAll(_, _)
PutAll(files, entries) ==
    IF entries = <<>> THEN files ELSE PutAll(PutFile(files, Head(entries)), Tail(entries))

\* the `warnings` of a translated entry, when it has any
WarningsOf(entry) == IF Has(entry, "warnings") THEN entry.warnings ELSE <<>>

\* allWarnings.push(...warnings) over the used schemas
CollectWarnings(usedSchemas) == FlattenSeq([i \in DOMAIN usedSchemas |-> WarningsOf(usedSchemas[i])])

\* schemaFiles[`schemas/${typeName}.ts`] for every used schema
SchemaFileOf(entry) ==
    [file      |-> toPascalCase(entry.name),
     exportVar |-> toPascalCase(entry.name) \o SchemaSuffix,
     name      |-> entry.name,
     body      |-> serializeZodSchema(entry.schema),
     warnings  |-> WarningsOf(entry)]

GenerateSchemaFiles(ops, translated) ==
    LET usedSchemas == findUsedSchemas(ops, translated)
    IN  PutAll(<<>>, [i \in DOMAIN usedSchemas |-> SchemaFileOf(usedSchemas[i])])

\* resourceFiles[`resources/${pascalCaseName}Resource.ts`] for every group
ResourceFileOf(group, translated) ==
    LET sanitizedResourceName == toValidIdentifier(group.name)
        snakeCaseName == toSnakeCase(group.name)
    IN  [file |-> toPascalCase(snakeCaseName),
         code |-> generateResourceCode(sanitizedResourceName, snakeCaseName,
                                       group.ops, translated),
         ops  |-> group.ops]

GenerateResourceFiles(groups, translated) ==
    PutAll(<<>>, [i \in DOMAIN groups |-> ResourceFileOf(groups[i], translated)])

\* Step 3 of generateFromOpenAPI, once every schema has been translated
GenerateMCPServerCode ==
    /\ pc = "convert"
    /\ cursor > Len(rawSchemas)
    /\ schemaFiles' = GenerateSchemaFiles(operations, schemas)
    /\ allWarnings' = CollectWarnings(findUsedSchemas(operations, schemas))
    /\ resourceGroups' = groupOperationsByResource(operations)
    /\ resourceFiles' = GenerateResourceFiles(resourceGroups', schemas)
    /\ console' = console \o (IF verbose THEN SkippedLog(operations) ELSE <<>>)
    /\ pc' = "generated"
    /\ UNCHANGED <<rawSchemas, operations, schemas, cursor, converterVars,
                   source, verbose, thrown, disk, runs, firstRun, serverVars>>

(***************************************************************************)
(* writeOutputFiles, and the files generateMCPServerCode returns besides   *)
(* the schema and resource files.  A main file is represented by the data  *)
(* its template is filled with.                                            *)
(***************************************************************************)
\* number of calls of generateFromOpenAPI on the same output directory
MaxRuns == 2

InDir(dir, file) == [dir |-> dir, file |-> file]

\* server, types, packageJson, readme and apiClient of generateMCPServerCode
MainFiles(serverName, ops, translated, groups) ==
    LET usedSchemas == findUsedSchemas(ops, translated)
        typeNames == [i \in DOMAIN usedSchemas |-> toPascalCase(usedSchemas[i].name)]
        resourceNames == [i \in DOMAIN groups |->
                            toCamelCase(toValidIdentifier(groups[i].name))]
    IN  << [name |-> <<"server.js">>,
            content |-> [serverName |-> serverName, resources |-> resourceNames]],
           [name |-> <<"types.ts">>, content |-> [types |-> typeNames]],
           [name |-> <<"package.json">>, content |-> [serverName |-> serverName]],
           [name |-> <<"README.md">>,
            content |-> [serverName |-> serverName,
                         operations |-> [i \in DOMAIN ops |->
                                           [method |-> ops[i].method, path |-> ops[i].path]],
                         schemas |-> [i \in DOMAIN usedSchemas |-> usedSchemas[i].name]]],
           [name |-> <<"apiClient.ts">>, content |-> [template |-> "apiClient"]] >>

\* the file-system calls of writeOutputFiles, in order
FileOperations(main, sFiles, rFiles) ==
    << [op |-> "mkdir", path |-> InDir(".", <<>>)] >>
    \o [i \in DOMAIN main |->
          [op |-> "writeFile", path |-> InDir(".", main[i].name), content |-> main[i].content]]
    \o FlattenSeq([i \in DOMAIN sFiles |->
          << [op |-> "mkdir", path |-> InDir("schemas", <<>>)],
             [op |-> "writeFile", path |-> InDir("schemas", sFiles[i].file),
              content |-> sFiles[i]] >>])
    \o FlattenSeq([i \in DOMAIN rFiles |->
          << [op |-> "mkdir", path |-> InDir("resources", <<>>)],
             [op |-> "writeFile", path |-> InDir("resources", rFiles[i].file),
              content |-> rFiles[i].code] >>])

writeFile_Append(files, path, content) ==
    IF \E e \in files : e.path = path
    THEN { e \in files : e.path # path }
         \cup { [path |-> path,
                 content |-> [appended |-> content,
                              to |-> (CHOOSE e \in files : e.path = path).content]] }
    ELSE files \cup { [path |-> path, content |-> content] }

\* fs.mkdir(..., { recursive: true }) and fs.writeFile(path, content, 'utf-8')
writeFile(files, path, content) ==
    { e \in files : e.path # path } \cup { [path |-> path, content |-> content] }

mkdir(files, path) ==
    IF \E e \in files : e.path = path THEN files
    ELSE files \cup { [path |-> path, content |-> [directory |-> TRUE]] }

RECURSIVE Perform(_, _)
Perform(files, ops) ==
    IF ops = <<>> THEN files
    ELSE Perform(IF Head(ops).op = "mkdir" THEN mkdir(files, Head(ops).path)
                 ELSE writeFile(files, Head(ops).path, Head(ops).content),
                 Tail(ops))

\* the "→ Wrote: <file>" lines of verbose mode
WroteLog(ops) ==
    LET written == SelectSeq(ops, LAMBDA o : o.op = "writeFile")
    IN  [i \in DOMAIN written |-> [line |-> "Wrote", path |-> written[i].path]]

\* Step 4 of generateFromOpenAPI: the calls are awaited one after the other;
\* the first one that fails (failAt) rejects and the error is rethrown
WriteOutputFiles ==
    /\ pc = "generated"
    /\ \E ops \in { FileOperations(
                       MainFiles(source.serverName, operations, schemas, resourceGroups),
                       schemaFiles, resourceFiles) } :
         \E failAt \in 0..Len(ops) :
           \E performed \in { IF failAt = 0 THEN ops ELSE SubSeq(ops, 1, failAt - 1) } :
             /\ disk' = Perform(disk, performed)
             /\ console' = console \o (IF verbose THEN WroteLog(performed) ELSE <<>>)
             /\ IF failAt = 0
                THEN /\ pc' = "done"
                     /\ runs' = runs + 1
                     /\ firstRun' = IF runs = 0 THEN disk' ELSE firstRun
                     /\ UNCHANGED thrown
                ELSE /\ pc' = "failed"
                     /\ thrown' = [syscall |-> ops[failAt].op, path |-> ops[failAt].path]
                     /\ UNCHANGED <<runs, firstRun>>
    /\ UNCHANGED <<rawSchemas, operations, schemas, cursor, schemaFiles, resourceGroups,
                   resourceFiles, allWarnings, converterVars, source, verbose, serverVars>>

\* generateFromOpenAPI is called again with the same options
RunAgain ==
    /\ pc = "done"
    /\ runs < MaxRuns
    /\ pc' = "parse"
    /\ rawSchemas' = <<>>
    /\ operations' = <<>>
    /\ schemas' = <<>>
    /\ cursor' = 1
    /\ schemaFiles' = <<>>
    /\ resourceGroups' = <<>>
    /\ resourceFiles' = <<>>
    /\ allWarnings' = <<>>
    /\ console' = <<>>
    /\ UNCHANGED <<converterVars, source, verbose, thrown, disk, runs, firstRun, serverVars>>

(***************************************************************************)
(* schema-converter.ts: convertOpenAPISchemasToZod.  Its entries are the   *)
(* ones that carry `warnings`, which generateMCPServerCode writes into the *)
(* schema files.  The state threaded through the recursion is the          *)
(* `processed` set and the `options.warnings` array.  Names given to       *)
(* inline schemas (`${propName}_prop`, 'array_item', ...) are sequences of *)
(* tokens, like the names of the components.                               *)
(***************************************************************************)
\* "TypeError: Cannot read properties of null", as a value
TypeErrorThrown == [throw |-> "TypeError"]

\* null: the value of an empty YAML entry, and of a schema already processed
Null == [null |-> TRUE]
IsNull(x) == Has(x, "null")

\* extractRefName of schema-converter.ts: the last part, unchanged
converterExtractRefName(ref) ==
    LET parts == splitSlash(ref, <<>>)
    IN  parts[Len(parts)]

\* allSchemas[refName], when it is truthy
Resolvable(allSchemas, refName) ==
    HasName(allSchemas, refName) /\ ~IsNull(GetByName(allSchemas, refName).schema)

PushWarning(st, w) == [st EXCEPT !.warnings = Append(@, w)]

\* the readonly heuristics of convertObjectSchema; the property names of the
\* model that end in 'Id' are listed
NamesEndingInId == {"ownerId", "authorId", "userId"}
isReadonly(prop, detectReadonly) ==
    detectReadonly /\
      \/ Has(prop.schema, "readOnly") /\ prop.schema.readOnly = TRUE
      \/ Has(prop.schema, "x-readonly") /\ prop.schema["x-readonly"] = TRUE
      \/ prop.key \in {"id", "createdAt", "updatedAt", "created_at", "updated_at"}
      \/ prop.key \in NamesEndingInId /\ prop.key # "authorId" /\ prop.key # "userId"

\* converted?.schema || z.any()
SchemaOrAny(r) == IF IsNull(r.result) THEN ZAny ELSE r.result.schema

\* a $ref that names no schema of the document
UnresolvedRef(schema, allSchemas) ==
    Has(schema, "ref") /\ ~Resolvable(allSchemas, converterExtractRefName(schema.ref))

\* the name and the schema convertSchemaToZod is called with for a nested
\* schema: those of the referenced component, or the inline schema under the
\* name the caller gives it
TargetName(schema, inlineName) ==
    IF Has(schema, "ref") THEN converterExtractRefName(schema.ref) ELSE inlineName

TargetSchema(schema, allSchemas) ==
    IF Has(schema, "ref")
    THEN GetByName(allSchemas, converterExtractRefName(schema.ref)).schema ELSE schema

\* what the callers make of a result r of convertSchemaToZod
ZodAndState(r) == [zod |-> SchemaOrAny(r), st |-> r.st]

ArrayResult(r) == [zod |-> [z |-> "array", type |-> SchemaOrAny(r)], st |-> r.st]

Entry(name, one) == [result |-> [name |-> name, schema |-> one.zod], st |-> one.st]

RefResult(name, r) ==
    IF ~IsNull(r.result) THEN r ELSE [result |-> [name |-> name, schema |-> ZAny], st |-> r.st]

\* shape[propName] = zodProp, after the readonly detection
AddProperty(acc, prop, detectReadonly, one) ==
    [shape |-> Append(acc.shape,
                      [key   |-> prop.key,
                       value |-> IF isReadonly(prop, detectReadonly)
                                 THEN [z |-> "readonly", innerType |-> one.zod]
                                 ELSE one.zod]),
     st |-> one.st]

\* the properties not listed in `required` are made optional
ObjectResult(schema, done) ==
    [zod |-> [z |-> "object",
              shape |-> IF Has(schema, "required") /\ Len(schema.required) > 0
                        THEN [i \in DOMAIN done.shape |->
                                IF done.shape[i].key \in Range(schema.required)
                                THEN done.shape[i]
                                ELSE [key |-> done.shape[i].key,
                                      value |-> ZOptional(done.shape[i].value)]]
                        ELSE done.shape],
     st |-> done.st]

\* schemas.push(converted.schema) when the member was converted
AddMember(acc, r) ==
    [schemas |-> IF IsNull(r.result) THEN acc.schemas ELSE Append(acc.schemas, r.result.schema),
     st |-> r.st]

UnionResult(done) ==
    [zod |-> IF Len(done.schemas) = 0 THEN ZAny
             ELSE IF Len(done.schemas) = 1 THEN done.schemas[1]
             ELSE [z |-> "union", options |-> done.schemas],
     st  |-> done.st]

IntersectionResult(done) ==
    [zod |-> IF Len(done.schemas) = 0 THEN ZAny
             ELSE IF Len(done.schemas) < 2 THEN done.schemas[1]
             ELSE [z |-> "intersection", left |-> done.schemas[1], right |-> done.schemas[2]],
     st  |-> done.st]

RECURSIVE convertSchemaToZod(_, _, _, _)
RECURSIVE convertArraySchema(_, _, _)
RECURSIVE convertProperties(_, _, _, _)
RECURSIVE convertObjectSchema(_, _, _)
RECURSIVE convertMembers(_, _, _, _)
RECURSIVE convertUnionSchema(_, _, _)

\* convertArraySchema: [zod, st]
convertArraySchema(schema, allSchemas, st) ==
    IF ~Has(schema, "items") \/ UnresolvedRef(schema.items, allSchemas)
    THEN [zod |-> [z |-> "array", type |-> ZAny], st |-> st]
    ELSE ArrayResult(convertSchemaToZod(TargetName(schema.items, <<"array_item">>),
                                        TargetSchema(schema.items, allSchemas), allSchemas, st))

\* one property of convertObjectSchema: [zod, st]
convertProperty(prop, allSchemas, st) ==
    IF UnresolvedRef(prop.schema, allSchemas)
    THEN [zod |-> ZAny,
          st  |-> PushWarning(st, [warning |-> "not found",
                                   schema |-> converterExtractRefName(prop.schema.ref),
                                   referencedBy |-> prop.key])]
    ELSE ZodAndState(convertSchemaToZod(TargetName(prop.schema, <<prop.key, "_prop">>),
                                        TargetSchema(prop.schema, allSchemas), allSchemas, st))

\* the loop over Object.entries(schema.properties); acc is [shape, st]
convertProperties(props, allSchemas, detectReadonly, acc) ==
    IF props = <<>> THEN acc
    ELSE convertProperties(Tail(props), allSchemas, detectReadonly,
             AddProperty(acc, Head(props), detectReadonly,
                         convertProperty(Head(props), allSchemas, acc.st)))

\* convertObjectSchema: [zod, st]; the schemas of the model carry no
\* additionalProperties
convertObjectSchema(schema, allSchemas, st) ==
    ObjectResult(schema,
                 IF Has(schema, "properties")
                 THEN convertProperties(schema.properties, allSchemas, TRUE,
                                        [shape |-> <<>>, st |-> st])
                 ELSE [shape |-> <<>>, st |-> st])

\* the loops of convertUnionSchema over the members; acc is [schemas, st];
\* a member whose $ref names no schema is skipped
convertMembers(members, inlineName, allSchemas, acc) ==
    IF members = <<>> THEN acc
    ELSE convertMembers(Tail(members), inlineName, allSchemas,
             IF UnresolvedRef(Head(members), allSchemas) THEN acc
             ELSE AddMember(acc, convertSchemaToZod(TargetName(Head(members), inlineName),
                                                    TargetSchema(Head(members), allSchemas),
                                                    allSchemas, acc.st)))

\* convertUnionSchema: [zod, st]
convertUnionSchema(schema, allSchemas, st) ==
    IF Has(schema, "oneOf") \/ Has(schema, "anyOf") THEN
        UnionResult(convertMembers(IF Has(schema, "oneOf") THEN schema.oneOf ELSE schema.anyOf,
                                   <<"union_item">>, allSchemas, [schemas |-> <<>>, st |-> st]))
    ELSE IF Has(schema, "allOf") THEN
        IntersectionResult(convertMembers(schema.allOf, <<"intersection_item">>, allSchemas,
                                          [schemas |-> <<>>, st |-> st]))
    ELSE [zod |-> ZAny, st |-> st]

\* processedSchemas.add(name)
MarkProcessed(st, name) == [st EXCEPT !.processed = @ \cup {name}]

\* convertSchemaToZod: [result, st], where result is the entry [name, schema],
\* Null, or the TypeError thrown on reading a property of null
convertSchemaToZod(name, schema, allSchemas, st) ==
    IF name \in st.processed THEN [result |-> Null, st |-> st]
    ELSE IF IsNull(schema) THEN [result |-> TypeErrorThrown, st |-> MarkProcessed(st, name)]
    ELSE IF UnresolvedRef(schema, allSchemas) THEN
        [result |-> [name |-> name, schema |-> ZAny],
         st |-> PushWarning(MarkProcessed(st, name),
                            [warning |-> "not found",
                             schema |-> converterExtractRefName(schema.ref)])]
    ELSE IF Has(schema, "ref") THEN
        RefResult(name, convertSchemaToZod(TargetName(schema, name),
                                           TargetSchema(schema, allSchemas), allSchemas,
                                           MarkProcessed(st, name)))
    ELSE IF Has(schema, "enum") THEN
        Entry(name, [zod |-> [z |-> "enum", values |-> schema.enum],
                     st |-> MarkProcessed(st, name)])
    ELSE IF Has(schema, "type") /\ schema.type = "string" THEN
        Entry(name, [zod |-> [z |-> "string"], st |-> MarkProcessed(st, name)])
    ELSE IF Has(schema, "type") /\ schema.type \in {"number", "integer"} THEN
        Entry(name, [zod |-> [z |-> "number"], st |-> MarkProcessed(st, name)])
    ELSE IF Has(schema, "type") /\ schema.type = "boolean" THEN
        Entry(name, [zod |-> [z |-> "boolean"], st |-> MarkProcessed(st, name)])
    ELSE IF Has(schema, "type") /\ schema.type = "array" THEN
        Entry(name, convertArraySchema(schema, allSchemas, MarkProcessed(st, name)))
    ELSE IF (Has(schema, "type") /\ schema.type = "object") \/ Has(schema, "properties")
            \/ Has(schema, "additionalProperties") THEN
        Entry(name, convertObjectSchema(schema, allSchemas, MarkProcessed(st, name)))
    ELSE IF Has(schema, "oneOf") \/ Has(schema, "anyOf") \/ Has(schema, "allOf") THEN
        Entry(name, convertUnionSchema(schema, allSchemas, MarkProcessed(st, name)))
    ELSE Entry(name, [zod |-> ZAny, st |-> MarkProcessed(st, name)])

\* one pass of the loop of convertOpenAPISchemasToZod: an error is swallowed
\* unless options.strictMode
AddEntry(acc, strict, r) ==
    [converted |-> IF IsThrow(r.result) \/ IsNull(r.result) THEN acc.converted
                   ELSE Append(acc.converted, r.result),
     st        |-> r.st,
     thrown    |-> IsThrow(r.result) /\ strict]

\* the loop of convertOpenAPISchemasToZod over Object.entries(schemas); acc
\* is [converted, st, thrown]
RECURSIVE convertEntries(_, _, _, _)
convertEntries(todo, allSchemas, strict, acc) ==
    IF todo = <<>> \/ acc.thrown THEN acc
    ELSE convertEntries(Tail(todo), allSchemas, strict,
             AddEntry(acc, strict,
                      convertSchemaToZod(Head(todo).name, Head(todo).schema, allSchemas, acc.st)))

\* converted[0].warnings = warnings, when there are warnings
AttachWarnings(done) ==
    [thrown    |-> done.thrown,
     converted |->
        IF Len(done.st.warnings) > 0 /\ Len(done.converted) > 0
        THEN [i \in DOMAIN done.converted |->
                IF i = 1 THEN [name |-> done.converted[1].name,
                               schema |-> done.converted[1].schema,
                               warnings |-> done.st.warnings]
                ELSE done.converted[i]]
        ELSE done.converted,
     warnings  |-> done.st.warnings]

\* convertOpenAPISchemasToZod: the converted entries, the warnings attached
\* to the first of them, or the error rethrown in strict mode
convertOpenAPISchemasToZod(allSchemas, strict) ==
    AttachWarnings(convertEntries(allSchemas, allSchemas, strict,
                                  [converted |-> <<>>,
                                   st |-> [processed |-> {}, warnings |-> <<>>],
                                   thrown |-> FALSE]))

\* A run of convertOpenAPISchemasToZod over components.schemas; its entries
\* are the `schemas` handed to generateMCPServerCode
ConvertOpenAPISchemasToZod ==
    /\ pc = "convertZod"
    /\ \E r \in { convertOpenAPISchemasToZod(rawSchemas, strictMode) } :
          IF r.thrown
          THEN pc' = "failed" /\ UNCHANGED <<schemas, cursor, converterWarnings>>
          ELSE /\ schemas' = r.converted
               /\ converterWarnings' = r.warnings
               /\ cursor' = Len(rawSchemas) + 1
               /\ pc' = "convert"
    /\ UNCHANGED <<rawSchemas, operations, schemaFiles, resourceGroups, resourceFiles,
                   allWarnings, strictMode, runVars, serverVars>>

(***************************************************************************)
(* The documents the generator is run on                                   *)
(***************************************************************************)
\* longest operation list of a document
MaxOps == 3
\* most responses of one operation
MaxResponses == 3

\* "#/components/schemas/": the parts the code never looks into are kept whole
RefPrefix == <<"#", "/", "components", "/", "schemas", "/">>
Ref(name) == [ref |-> RefPrefix \o name]
Str == [type |-> "string"]
ArrayOf(schema) == [type |-> "array", items |-> schema]

NameA == <<"A">>
NameB == <<"B">>
NameC == <<"C">>
\* a name with a separator, and the name it collapses to in extractRefName
NameA_B == <<"A","_","B">>
NameAB == <<"A","B">>
\* a name no component schema has
NameZ == <<"Z">>
\* a name with a lower-case initial
NamePet == <<"p","e","t">>

\* an object schema with a server-assigned readOnly id, a name and one more property
ObjectWith(link) ==
    [type |-> "object",
     properties |-> << [key |-> "id",   schema |-> [type |-> "string", readOnly |-> TRUE]],
                       [key |-> "name", schema |-> Str],
                       [key |-> "link", schema |-> link] >>,
     required |-> <<"id", "name">>]

LinksOfA == { Str, Ref(NameA), Ref(NameB), ArrayOf(Ref(NameB)),
              [oneOf |-> <<Str, Ref(NameC)>>] }
LinksOfB == { Str, Ref(NameA), Ref(NameC), ArrayOf(Ref(NameA)),
              [allOf |-> <<Ref(NameC), Str>>] }

\* a schema without type, $ref, enum or union keyword
FreeForm == [description |-> "free form"]

\* components.schemas of the documents that vary the schema graph
GraphTables ==
    { << [name |-> NameA, schema |-> ObjectWith(la)],
         [name |-> NameB, schema |-> ObjectWith(lb)],
         [name |-> NameC, schema |-> ObjectWith(Str)] >> : la \in LinksOfA, lb \in LinksOfB }
    \cup
    { << [name |-> NameA_B, schema |-> ObjectWith(Str)],
         [name |-> NameAB,  schema |-> ObjectWith(Str)] >>,
      << [name |-> NameA_B, schema |-> ObjectWith(Str)] >>,
      << [name |-> NamePet, schema |-> ObjectWith(Str)] >>,
      << [name |-> NameA, schema |-> FreeForm],
         [name |-> NameB, schema |-> ObjectWith(Str)] >>,
      << >> }

\* components.schemas of the documents that vary the operations
PlainTable ==
    << [name |-> NameA, schema |-> ObjectWith(Str)],
       [name |-> NameB, schema |-> ObjectWith(Str)] >>

Slash == <<"/">>
RECURSIVE PathOf(_)
PathOf(parts) == IF parts = <<>> THEN <<>> ELSE Slash \o Head(parts) \o PathOf(Tail(parts))

SegPets == <<"p","e","t","s">>
SegToys == <<"t","o","y","s">>
SegApi == <<"a","p","i">>
SegPetOwners == <<"P","e","t","-","O","w","n","e","r","s">>
SegId == <<"{","i","d","}">>
SegToyId == <<"{","t","o","y","I","d","}">>

\* a response of the responses object; without schema it has no JSON content
Response(code, schema) == [code |-> code, schema |-> schema]
NoContent(code) == [code |-> code]

\* a union three levels below the response schema
DeepUnion(name) ==
    [type |-> "object",
     properties |-> << [key |-> "data",
                        schema |-> ArrayOf([type |-> "object",
                                    properties |-> << [key |-> "item",
                                        schema |-> [anyOf |-> <<Str, Ref(name)>>]] >>])] >>]

\* the operations of the documents that vary the schema graph
GraphOperations ==
    { [method |-> "GET", path |-> PathOf(<<SegPets, SegId>>),
       responses |-> <<Response(200, s)>>]
        : s \in { Ref(NameA), ArrayOf(Ref(NameB)), DeepUnion(NameC), Ref(NameA_B), Ref(NamePet),
                  [oneOf |-> <<Ref(NameZ), Ref(NameB)>>] } }
    \cup
    { [method |-> "POST", path |-> PathOf(<<SegPets>>),
       requestBody |-> [schema |-> Ref(NameB)],
       responses |-> <<Response(201, Ref(NameA)), NoContent(400)>>],
      [method |-> "DELETE", path |-> PathOf(<<SegPets, SegId>>)] }

\* the operations of the documents that vary paths and verbs: the payload
\* follows the verb
GetOne(path)  == [method |-> "GET", path |-> path, responses |-> <<Response(200, Ref(NameA))>>]
GetMany(path) == [method |-> "GET", path |-> path,
                  responses |-> <<Response(200, ArrayOf(Ref(NameA)))>>]
Post(path)    == [method |-> "POST", path |-> path, requestBody |-> [schema |-> Ref(NameB)],
                  responses |-> <<Response(201, Ref(NameB))>>]
Put(path)     == [method |-> "PUT", path |-> path, requestBody |-> [schema |-> Ref(NameB)],
                  responses |-> <<Response(200, Ref(NameB))>>]
Patch(path)   == [method |-> "PATCH", path |-> path, requestBody |-> [schema |-> Ref(NameB)],
                  responses |-> <<Response(200, Ref(NameA))>>]
Delete(path)  == [method |-> "DELETE", path |-> path, responses |-> <<NoContent(204)>>]

PathOperations ==
    { GetMany(PathOf(<<SegPets>>)), Post(PathOf(<<SegPets>>)),
      GetOne(PathOf(<<SegPets, SegId>>)), Put(PathOf(<<SegPets, SegId>>)),
      Patch(PathOf(<<SegPets, SegId>>)), Delete(PathOf(<<SegPets, SegId>>)),
      GetMany(PathOf(<<SegPets, SegId, SegToys>>)), Post(PathOf(<<SegPets, SegId, SegToys>>)),
      GetOne(PathOf(<<SegPets, SegId, SegToys, SegToyId>>)),
      GetOne(PathOf(<<SegApi>>)),
      GetOne(PathOf(<<SegPetOwners, SegId>>)),
      Post(PathOf(<<SegPetOwners>>)) }

\* sequences of at most n distinct elements of S
RECURSIVE DistinctSeqs(_, _)
DistinctSeqs(S, n) ==
    IF n = 0 THEN { <<>> }
    ELSE LET shorter == DistinctSeqs(S, n - 1)
         IN  shorter \cup UNION { { Append(q, x) : x \in S \ Range(q) }
                                  : q \in { r \in shorter : Len(r) = n - 1 } }

\* the responses objects of the documents that vary one operation's responses
ResponseCodes == { 200, 201, 202, 404 }
ResponseShapes == { Ref(NameA), ArrayOf(Ref(NameA)), Ref(NameZ),
                    [oneOf |-> <<Ref(NameZ), Ref(NameB)>>] }
ResponseObjects ==
    UNION { { [i \in DOMAIN codes |-> Response(codes[i], shape[i])]
              : shape \in [DOMAIN codes -> ResponseShapes] }
            : codes \in DistinctSeqs(ResponseCodes, MaxResponses) }

\* The state after parseOpenAPI has returned: a document of one of three families
InitGraph ==
    /\ rawSchemas \in GraphTables
    /\ \E op \in GraphOperations : operations = <<op>>

InitPaths ==
    /\ rawSchemas = PlainTable
    /\ operations \in DistinctSeqs(PathOperations, MaxOps)

InitResponses ==
    /\ rawSchemas = PlainTable
    /\ \E rs \in ResponseObjects :
          operations = << [method |-> "GET", path |-> PathOf(<<SegPets, SegId>>),
                           responses |-> rs] >>

\* nothing translated or generated yet
Blank ==
    /\ schemas = <<>>
    /\ cursor = 1
    /\ schemaFiles = <<>>
    /\ resourceGroups = <<>>
    /\ resourceFiles = <<>>
    /\ allWarnings = <<>>
    /\ converterWarnings = <<>>

\* no run of generateFromOpenAPI has written or thrown anything
Idle ==
    /\ thrown = NoError
    /\ console = <<>>
    /\ runs = 0
    /\ firstRun = {}

\* the HTTP app has received no request
NoConfig == [none |-> TRUE]
NoCall == [none |-> TRUE]

NotServing ==
    /\ handled = <<>>
    /\ openTransports = {}
    /\ connected = 0
    /\ config = NoConfig
    /\ registered = <<>>
    /\ stream = NoCall

ServerName == "petstore"

Init ==
    /\ pc = "convert"
    /\ InitGraph \/ InitPaths \/ InitResponses
    /\ Blank
    /\ strictMode = FALSE
    /\ source = [kind |-> "document", serverName |-> ServerName]
    /\ verbose = FALSE
    /\ disk = {}
    /\ Idle
    /\ NotServing /\ resRaw = TRUE

Next == ConvertSchema \/ GenerateMCPServerCode

Spec == Init /\ [][Next]_vars

\* components.schemas of the documents given to convertOpenAPISchemasToZod
\* an object schema without a `required` list
NoRequiredList ==
    [type |-> "object",
     properties |-> << [key |-> "name", schema |-> Str],
                       [key |-> "link", schema |-> Ref(NameC)] >>]

ConverterTables ==
    { << [name |-> NameA, schema |-> ObjectWith(la)],
         [name |-> NameB, schema |-> lb],
         [name |-> NameC, schema |-> ObjectWith(Str)] >>
        : la \in { Str, Ref(NameB), Ref(NameZ), ArrayOf(Ref(NameZ)),
                   [oneOf |-> <<Ref(NameZ), Ref(NameC)>>] },
          lb \in { ObjectWith(Str), ObjectWith(Ref(NameA)), ObjectWith(Ref(NameZ)),
                   Ref(NameZ), Ref(NameC), FreeForm, Null, [type |-> "number"],
                   NoRequiredList } }

\* the runs of convertOpenAPISchemasToZod followed by generateMCPServerCode
InitConverter ==
    /\ pc = "convertZod"
    /\ rawSchemas \in ConverterTables
    /\ \E op \in { o \in GraphOperations : o.method = "GET" } : operations = <<op>>
    /\ Blank
    /\ strictMode \in BOOLEAN
    /\ source = [kind |-> "document", serverName |-> ServerName]
    /\ verbose = FALSE
    /\ disk = {}
    /\ Idle
    /\ NotServing /\ resRaw = TRUE

NextConverter == ConvertOpenAPISchemasToZod \/ GenerateMCPServerCode

SpecConverter == InitConverter /\ [][NextConverter]_vars

(***************************************************************************)
(* Whole runs of generateFromOpenAPI, from the source to the output        *)
(* directory                                                               *)
(***************************************************************************)
\* the `openapi` field: 3.x strings, other strings, the empty string
Versions ==
    { <<"3", ".", "0", ".", "3">>, <<"3", ".", "1">>, <<"2", ".", "0">>, <<"3">>,
      <<"1", "3", ".">>, <<>> }

\* entries of a path item: operations, and keys that are not operations
GetItem == [key |-> "get", value |-> [responses |-> <<Response(200, Ref(NameA))>>]]
PostItem ==
    [key |-> "post", value |-> [requestBody |-> [schema |-> Ref(NameB)],
                                responses |-> <<Response(201, Ref(NameA))>>]]
PutItem ==
    [key |-> "put", value |-> [requestBody |-> [schema |-> Ref(NameB)],
                               responses |-> <<Response(200, Ref(NameB))>>]]
SummaryItem == [key |-> "summary", value |-> [text |-> "Pets"]]
ParametersItem == [key |-> "parameters", value |-> [array |-> <<>>]]
RefItem == [key |-> "$ref", value |-> [text |-> "#/components/pathItems/pets"]]
\* a specification extension whose value is an object
ExtensionItem == [key |-> "x-internal", value |-> [owner |-> "platform"]]

\* the `paths` object: empty, or one of a few sets of paths
PathsObjects ==
    { <<>>,
      << [path |-> PathOf(<<SegPets, SegId>>), item |-> <<SummaryItem, PutItem, GetItem>>] >>,
      << [path |-> PathOf(<<SegPets>>), item |-> <<ParametersItem, PostItem>>],
         [path |-> PathOf(<<SegApi>>), item |-> <<GetItem>>] >>,
      << [path |-> Slash, item |-> <<GetItem>>],
         [path |-> PathOf(<<SegId>>), item |-> <<RefItem, GetItem>>] >>,
      << [path |-> PathOf(<<SegPets>>), item |-> <<SummaryItem>>] >>,
      << [path |-> PathOf(<<SegPets>>), item |-> <<ExtensionItem, GetItem>>] >> }

\* the `components` object: without schemas, with none, with two
ComponentsObjects ==
    { [responses |-> <<>>], [schemas |-> <<>>], [schemas |-> PlainTable] }

\* the fields a document may lack are left out of some documents
Documents ==
    LET full == { [openapi |-> v, info |-> [title |-> "Pets"], paths |-> p, components |-> c]
                    : v \in Versions, p \in PathsObjects, c \in ComponentsObjects }
        Without(d, f) == [g \in DOMAIN d \ {f} |-> d[g]]
    IN  full
        \cup { Without(d, "components") : d \in full }
        \cup { Without(d, "info") : d \in { e \in full : e.components = [schemas |-> PlainTable] } }
        \cup { Without(d, "paths") : d \in { e \in full : e.paths = <<>> } }
        \cup { Without(d, "openapi") : d \in { e \in full : e.openapi = <<>> } }

Sources ==
    { [kind |-> "unreachable", serverName |-> ServerName],
      [kind |-> "undecodable", serverName |-> ServerName] }
    \cup { [kind |-> "document", serverName |-> ServerName, spec |-> d] : d \in Documents }

\* what the output directory holds before the first run
StaleServerFile == [path |-> InDir(".", <<"server.js">>), content |-> [stale |-> TRUE]]
InitialDisks == { {}, {StaleServerFile} }

InitRun ==
    /\ pc = "parse"
    /\ rawSchemas = <<>>
    /\ operations = <<>>
    /\ Blank
    /\ strictMode = FALSE
    /\ source \in Sources
    /\ verbose \in BOOLEAN
    /\ disk \in InitialDisks
    /\ Idle
    /\ NotServing /\ resRaw = TRUE

NextRun ==
    ParseOpenAPI \/ ConvertSchema \/ GenerateMCPServerCode \/ WriteOutputFiles \/ RunAgain

SpecRun == InitRun /\ [][NextRun]_vars

(***************************************************************************)
(* The HTTP app of server.ts: one shared McpServer, three routes on /mcp   *)
(***************************************************************************)
MaxRequests == 2

\* the bodies a request may carry: a JSON-RPC request, a JSON-RPC
\* notification, text that is not JSON, nothing
ToolsList == [jsonrpc |-> "2.0", id |-> 1, method |-> "tools/list"]
Initialized == [jsonrpc |-> "2.0", method |-> "notifications/initialized"]
NotJson == [text |-> "tools/list"]
NoBody == [empty |-> TRUE]
Bodies == {ToolsList, Initialized, NotJson, NoBody}

IsJson(body) == Has(body, "jsonrpc")

Methods == {"GET", "POST", "DELETE", "PUT"}
Paths == {"/mcp", "/"}
Requests == [method : Methods, path : Paths, body : Bodies]

\* c.json({ jsonrpc: "2.0", error: { code, message }, id: null }, status)
JsonError(status, code) == [status |-> status, by |-> "app", code |-> code]

\* what the transport writes for a message: 200 for a request, 202 for a
\* notification
TransportResponse(body) ==
    [status |-> IF Has(body, "id") THEN 200 ELSE 202, by |-> "transport"]

Answer(request, response, reached) ==
    [request |-> request, response |-> response, transport |-> reached]

\* app.get("/mcp") and app.delete("/mcp")
MethodNotAllowed(request) == Answer(request, JsonError(405, -32000), FALSE)

\* app.post("/mcp"): a transport is created and connected, the body is
\* decoded, the transport is handed the raw request and `c.res.raw`; any
\* exception is answered 500
PostOutcome(request, raw) ==
    IF ~IsJson(request.body)
    THEN [answer |-> Answer(request, JsonError(500, -32603), FALSE), waits |-> FALSE]
    ELSE IF ~raw
    THEN [answer |-> Answer(request, JsonError(500, -32603), TRUE), waits |-> FALSE]
    ELSE [answer |-> Answer(request, TransportResponse(request.body), TRUE), waits |-> TRUE]

GetMcp ==
    /\ pc = "serve"
    /\ Len(handled) < MaxRequests
    /\ \E request \in Requests :
          /\ request.method = "GET" /\ request.path = "/mcp"
          /\ handled' = Append(handled, MethodNotAllowed(request))
    /\ UNCHANGED <<openTransports, connected, resRaw>>

DeleteMcp ==
    /\ pc = "serve"
    /\ Len(handled) < MaxRequests
    /\ \E request \in Requests :
          /\ request.method = "DELETE" /\ request.path = "/mcp"
          /\ handled' = Append(handled, MethodNotAllowed(request))
    /\ UNCHANGED <<openTransports, connected, resRaw>>

PostMcp ==
    /\ pc = "serve"
    /\ Len(handled) < MaxRequests
    /\ \E request \in Requests :
          /\ request.method = "POST" /\ request.path = "/mcp"
          /\ LET transport == Len(handled) + 1
                 outcome == PostOutcome(request, resRaw)
             IN  /\ handled' = Append(handled, outcome.answer)
                 /\ connected' = transport
                 /\ openTransports' = IF outcome.waits THEN openTransports \cup {transport}
                                      ELSE openTransports
    /\ UNCHANGED resRaw

\* nodeResponse.on("close"): transport.close(); server.close()
RequestClosed ==
    /\ pc = "serve"
    /\ \E transport \in openTransports :
          /\ openTransports' = openTransports \ {transport}
          /\ connected' = 0
    /\ UNCHANGED <<handled, resRaw>>

\* no route is registered for the request: the framework answers 404
NoRoute ==
    /\ pc = "serve"
    /\ Len(handled) < MaxRequests
    /\ \E request \in Requests :
          /\ request.path # "/mcp" \/ request.method \notin {"GET", "POST", "DELETE"}
          /\ handled' = Append(handled, Answer(request, [status |-> 404, by |-> "app"], FALSE))
    /\ UNCHANGED <<openTransports, connected, resRaw>>

generatorVars ==
    <<pc, rawSchemas, operations, schemas, cursor, schemaFiles, resourceGroups,
      resourceFiles, allWarnings, converterVars, runVars>>

InitServer ==
    /\ pc = "serve"
    /\ rawSchemas = <<>>
    /\ operations = <<>>
    /\ Blank
    /\ strictMode = FALSE
    /\ source = [kind |-> "document", serverName |-> ServerName]
    /\ verbose = FALSE
    /\ disk = {}
    /\ thrown = NoError /\ console = <<>> /\ runs = 0 /\ firstRun = {}
    /\ NotServing
    /\ resRaw \in BOOLEAN

NextServer ==
    \/ GetMcp /\ UNCHANGED <<generatorVars, mcpVars>>
    \/ DeleteMcp /\ UNCHANGED <<generatorVars, mcpVars>>
    \/ PostMcp /\ UNCHANGED <<generatorVars, mcpVars>>
    \/ RequestClosed /\ UNCHANGED <<generatorVars, mcpVars>>
    \/ NoRoute /\ UNCHANGED <<generatorVars, mcpVars>>

SpecServer == InitServer /\ [][NextServer]_vars

(***************************************************************************)
(* The tool start-notification-stream of server.ts                         *)
(***************************************************************************)
\* the iterations the model follows a call for
MaxCounter == 101

\* the values of `count`: 0, a few small numbers, the default
Counts == {0, 1, 2, 3, 10}

\* while (count === 0 || counter < count)
LoopCondition == stream.count = 0 \/ stream.counter < stream.count

\* one iteration of the loop: counter++, the notification is sent, sleep
SendNotification ==
    /\ pc = "stream"
    /\ LoopCondition
    /\ stream.counter < MaxCounter
    /\ stream' = [stream EXCEPT !.counter = @ + 1, !.notifications = @ + 1]
    /\ UNCHANGED pc

\* one iteration in which sendNotification rejects: the error is logged and
\* the loop goes on
SendNotificationFails ==
    /\ pc = "stream"
    /\ LoopCondition
    /\ stream.counter < MaxCounter
    /\ stream' = [stream EXCEPT !.counter = @ + 1, !.errors = @ + 1]
    /\ UNCHANGED pc

\* the loop is left and the tool returns its result
ReturnResult ==
    /\ pc = "stream"
    /\ ~LoopCondition
    /\ pc' = "returned"
    /\ UNCHANGED stream

streamRest ==
    <<rawSchemas, operations, schemas, cursor, schemaFiles, resourceGroups, resourceFiles,
      allWarnings, converterVars, runVars, handled, openTransports, connected, resRaw,
      config, registered>>

InitStream ==
    /\ pc = "stream"
    /\ rawSchemas = <<>>
    /\ operations = <<>>
    /\ Blank
    /\ strictMode = FALSE
    /\ source = [kind |-> "document", serverName |-> ServerName]
    /\ verbose = FALSE
    /\ disk = {}
    /\ Idle
    /\ handled = <<>> /\ openTransports = {} /\ connected = 0 /\ resRaw = TRUE
    /\ config = NoConfig /\ registered = <<>>
    /\ \E count \in Counts :
          stream = [count |-> count, counter |-> 0, notifications |-> 0, errors |-> 0]

NextStream ==
    \/ SendNotification /\ UNCHANGED streamRest
    \/ SendNotificationFails /\ UNCHANGED streamRest
    \/ ReturnResult /\ UNCHANGED streamRest

SpecStream == InitStream /\ [][NextStream]_vars

(***************************************************************************)
(* createMCPServer: validation of the relations and registration           *)
(***************************************************************************)
Underscore == <<"_">>
NoteName == <<"n","o","t","e">>
UserName == <<"u","s","e","r">>
TagName == <<"t","a","g">>

\* the keys of ResourceHandlers, and a custom method
HGet == <<"g","e","t">>
HCreate == <<"c","r","e","a","t","e">>
HUpdate == <<"u","p","d","a","t","e">>
HDelete == <<"d","e","l","e","t","e">>
HList == <<"l","i","s","t">>
HSearch == <<"s","e","a","r","c","h">>
Archive == <<"a","r","c","h","i","v","e">>

\* the error of one relation of a resource: its field is not in the shape of
\* the schema, or its type names no configured resource; NoError otherwise
RelationError_FieldOnly(resource, relation, resourceNames) ==
    IF relation.field \notin resource.shape
    THEN [error |-> "Configuration error", resource |-> resource.name,
          field |-> relation.field, about |-> "field"]
    ELSE NoError

RelationError(resource, relation, resourceNames) ==
    IF relation.field \notin resource.shape
    THEN [error |-> "Configuration error", resource |-> resource.name,
          field |-> relation.field, about |-> "field"]
    ELSE IF relation.type \notin resourceNames
    THEN [error |-> "Configuration error", resource |-> resource.name,
          field |-> relation.field, about |-> "type"]
    ELSE NoError

\* the first error of a sequence of checks, in their order
FirstError(errors) ==
    IF \A i \in DOMAIN errors : errors[i] = NoError THEN NoError
    ELSE errors[CHOOSE i \in DOMAIN errors :
                    errors[i] # NoError /\ \A j \in 1..(i - 1) : errors[j] = NoError]

\* the checks of one resource, in the order of its relations
RelationErrors(resource, resourceNames) ==
    IF Has(resource, "relations")
    THEN [k \in DOMAIN resource.relations |->
            RelationError(resource, resource.relations[k], resourceNames)]
    ELSE <<>>

\* the validation loop of createMCPServer: the error it throws, or NoError
validateRelations(cfg) ==
    FirstError(FlattenSeq([i \in DOMAIN cfg.resources |->
                             RelationErrors(cfg.resources[i], NamesOf(cfg.resources))]))

\* related_tools of a type resource: one name per key of `handlers` but get
relatedTools(handlers, resourceName) ==
    LET tools == SelectSeq(handlers, LAMBDA h : h # HGet)
    IN  [i \in DOMAIN tools |->
           IF tools[i] = HList THEN HList \o Underscore \o resourceName \o <<"s">>
           ELSE tools[i] \o Underscore \o resourceName]

TypeResource(resource) ==
    [kind |-> "resource", name |-> <<"t","y","p","e","_">> \o resource.name,
     related_tools |-> relatedTools(resource.handlers, resource.name)]

\* the type resources: one per resource when exposeTypes is true
typeResources(cfg) ==
    IF cfg.exposeTypes THEN [i \in DOMAIN cfg.resources |-> TypeResource(cfg.resources[i])]
    ELSE <<>>

Tool(name) == [kind |-> "tool", name |-> name]

WhenHandler(resource, handler, registration) ==
    IF handler \in Range(resource.handlers) THEN <<registration>> ELSE <<>>

\* what the registration loop registers for one resource, in its order
registerResource(resource) ==
    WhenHandler(resource, HGet, [kind |-> "resource", name |-> resource.name])
    \o WhenHandler(resource, HCreate, Tool(HCreate \o Underscore \o resource.name))
    \o WhenHandler(resource, HUpdate, Tool(HUpdate \o Underscore \o resource.name))
    \o WhenHandler(resource, HDelete, Tool(HDelete \o Underscore \o resource.name))
    \o WhenHandler(resource, HList, Tool(HList \o Underscore \o resource.name \o <<"s">>))
    \o (IF resource.searchSchema
        THEN WhenHandler(resource, HSearch,
                         Tool(HSearch \o Underscore \o resource.name \o <<"s">>))
        ELSE <<>>)
    \o (IF Has(resource, "customMethods")
        THEN [k \in DOMAIN resource.customMethods |->
                Tool(resource.customMethods[k] \o Underscore \o resource.name)]
        ELSE <<>>)

\* createMCPServer: the error thrown and what was registered before it
createMCPServer(cfg) ==
    IF validateRelations(cfg) # NoError
    THEN [thrown |-> validateRelations(cfg), registered |-> <<>>]
    ELSE [thrown |-> NoError,
          registered |-> typeResources(cfg)
                         \o FlattenSeq([i \in DOMAIN cfg.resources |->
                                          registerResource(cfg.resources[i])])]

mcpRest ==
    <<rawSchemas, operations, schemas, cursor, schemaFiles, resourceGroups, resourceFiles,
      allWarnings, converterVars, source, verbose, disk, console, runs, firstRun,
      openTransports, connected, resRaw, stream>>

CreateMCPServer ==
    /\ pc = "create"
    /\ \E made \in { createMCPServer(config) } :
          /\ thrown' = made.thrown
          /\ registered' = made.registered
          /\ pc' = IF made.thrown # NoError THEN "failed" ELSE "listening"
    /\ UNCHANGED <<mcpRest, config, handled>>

(***************************************************************************)
(* The auth middleware and the routes of the Express app                   *)
(***************************************************************************)
Issuer == "https://issuer.example"
ServerUrl == "https://mcp.example"

\* what a token says once decoded: the key that signed it, its issuer, its
\* audience and whether it has expired; Null when it is no JWT
TokenClaims(token) ==
    IF token = <<"good">>
    THEN [key |-> Issuer, iss |-> Issuer, aud |-> ServerUrl, expired |-> FALSE]
    ELSE IF token = <<"expired">>
    THEN [key |-> Issuer, iss |-> Issuer, aud |-> ServerUrl, expired |-> TRUE]
    ELSE IF token = <<"forged">>
    THEN [key |-> "attacker", iss |-> Issuer, aud |-> ServerUrl, expired |-> FALSE]
    ELSE IF token = <<"misdirected">>
    THEN [key |-> Issuer, iss |-> Issuer, aud |-> "https://other.example", expired |-> FALSE]
    ELSE Null

\* jwtVerify(token, JWKS, { issuer, audience }): "ok" or the code of the error
jwtVerify(token, issuer, audience) ==
    IF IsNull(TokenClaims(token)) THEN "ERR_JWS_INVALID"
    ELSE IF TokenClaims(token).key # issuer THEN "ERR_JWS_SIGNATURE_VERIFICATION_FAILED"
    ELSE IF TokenClaims(token).iss # issuer THEN "ERR_JWT_CLAIM_VALIDATION_FAILED"
    ELSE IF audience # "" /\ TokenClaims(token).aud # audience
    THEN "ERR_JWT_CLAIM_VALIDATION_FAILED"
    ELSE IF TokenClaims(token).expired THEN "ERR_JWT_EXPIRED"
    ELSE "ok"

BearerPrefix == <<"b","e","a","r","e","r"," ">>

\* res.status(401).header('WWW-Authenticate', ...).json(...)
Unauthorized(message) == [status |-> 401, by |-> "auth", error |-> message]

\* the middleware createAuthMiddleware returns: next is called, or a 401
createAuthMiddleware_NoVerify(authConfig, serverUrl, request) ==
    IF ~Has(request, "authorization")
       \/ ~startsWithPrefix(toLowerCase(request.authorization), BearerPrefix)
    THEN [next |-> FALSE,
          response |-> Unauthorized("Missing or invalid authorization header")]
    ELSE [next |-> TRUE]

createAuthMiddleware(authConfig, serverUrl, request) ==
    IF ~Has(request, "authorization")
       \/ ~startsWithPrefix(toLowerCase(request.authorization), BearerPrefix)
    THEN [next |-> FALSE,
          response |-> Unauthorized("Missing or invalid authorization header")]
    ELSE IF jwtVerify(SubSeq(request.authorization, 8, Len(request.authorization)),
                      authConfig.issuer, serverUrl) = "ok"
    THEN [next |-> TRUE]
    ELSE [next |-> FALSE, response |-> Unauthorized("Token validation failed")]

\* config.auth ? createAuthMiddleware(...) : (req, res, next) => next()
authMiddleware(cfg, request) ==
    IF Has(cfg, "auth") THEN createAuthMiddleware(cfg.auth, cfg.serverUrl, request)
    ELSE [next |-> TRUE]

Served(request, response, invocations) ==
    [request |-> request, response |-> response, invocations |-> invocations]

\* POST /: express.json() answers 400 to a body it cannot parse; then the
\* middleware; then the handler, which hands the request to a transport
PostRootOutcome(cfg, request) ==
    IF request.body = "malformed"
    THEN Served(request, [status |-> 400, by |-> "express.json"], 0)
    ELSE IF authMiddleware(cfg, request).next
    THEN Served(request, [status |-> 200, by |-> "transport"], 1)
    ELSE Served(request, authMiddleware(cfg, request).response, 0)

\* the Authorization headers of the requests
Authorizations ==
    { <<"B","e","a","r","e","r"," ","good">>, <<"b","e","a","r","e","r"," ","good">>,
      <<"B","e","a","r","e","r"," ","expired">>, <<"B","e","a","r","e","r"," ","forged">>,
      <<"B","e","a","r","e","r"," ","misdirected">>, <<"B","e","a","r","e","r"," ">>,
      <<"B","a","s","i","c"," ","good">> }

MetadataPath == "/.well-known/oauth-protected-resource-metadata"

McpRequests ==
    { [method |-> "POST", path |-> "/", body |-> b, authorization |-> a]
        : b \in {"json", "malformed"}, a \in Authorizations }
    \cup { [method |-> "POST", path |-> "/", body |-> b] : b \in {"json", "malformed"} }
    \cup { [method |-> "GET", path |-> p] : p \in {MetadataPath, "/"} }

\* app.post('/', authMiddleware, handler)
PostRoot ==
    /\ pc = "listening"
    /\ Len(handled) < MaxRequests
    /\ \E request \in McpRequests :
          /\ request.method = "POST" /\ request.path = "/"
          /\ handled' = Append(handled, PostRootOutcome(config, request))
    /\ UNCHANGED <<mcpRest, pc, thrown, config, registered>>

\* app.get('/.well-known/oauth-protected-resource-metadata'), registered
\* only when config.auth is set
GetMetadata ==
    /\ pc = "listening"
    /\ Len(handled) < MaxRequests
    /\ Has(config, "auth")
    /\ \E request \in McpRequests :
          /\ request.method = "GET" /\ request.path = MetadataPath
          /\ handled' = Append(handled, Served(request, [status |-> 200, by |-> "app"], 0))
    /\ UNCHANGED <<mcpRest, pc, thrown, config, registered>>

\* no route matches the request: Express answers 404
NotFound ==
    /\ pc = "listening"
    /\ Len(handled) < MaxRequests
    /\ \E request \in McpRequests :
          /\ request.method = "GET"
          /\ request.path = MetadataPath => ~Has(config, "auth")
          /\ handled' = Append(handled, Served(request, [status |-> 404, by |-> "app"], 0))
    /\ UNCHANGED <<mcpRest, pc, thrown, config, registered>>

\* the resources of the configurations
Note(handlers, searchSchema) ==
    [name |-> NoteName, shape |-> {"id", "title", "authorId"},
     handlers |-> handlers, searchSchema |-> searchSchema]

User == [name |-> UserName, shape |-> {"id", "name"},
         handlers |-> <<HGet, HList>>, searchSchema |-> FALSE]

With(resource, field, value) ==
    [f \in DOMAIN resource \cup {field} |-> IF f = field THEN value ELSE resource[f]]

HandlerSets ==
    { <<HGet, HList>>, <<HGet, HCreate, HUpdate, HDelete, HList>>, <<HList, HSearch>>,
      <<HCreate>> }

RelationSets ==
    { << [field |-> "authorId", type |-> UserName] >>,
      << [field |-> "ownerId", type |-> UserName] >>,
      << [field |-> "authorId", type |-> TagName] >>,
      << [field |-> "authorId", type |-> UserName], [field |-> "title", type |-> TagName] >> }

NoteResources ==
    { Note(h, s) : h \in HandlerSets, s \in BOOLEAN }
    \cup { With(Note(<<HGet, HList>>, FALSE), "relations", r) : r \in RelationSets }
    \cup { With(Note(<<HGet, HCreate>>, FALSE), "customMethods", <<Archive>>) }

Configs ==
    { [name |-> "notes", serverUrl |-> "", exposeTypes |-> e, resources |-> <<n, User>>]
        : e \in BOOLEAN, n \in NoteResources }
    \cup
    { [name |-> "notes", serverUrl |-> u, exposeTypes |-> FALSE, auth |-> [issuer |-> Issuer],
       resources |-> <<Note(<<HGet, HList>>, FALSE), User>>] : u \in {"", ServerUrl} }

InitMcp ==
    /\ pc = "create"
    /\ rawSchemas = <<>>
    /\ operations = <<>>
    /\ Blank
    /\ strictMode = FALSE
    /\ source = [kind |-> "document", serverName |-> ServerName]
    /\ verbose = FALSE
    /\ disk = {}
    /\ Idle
    /\ handled = <<>> /\ openTransports = {} /\ connected = 0 /\ resRaw = TRUE
    /\ config \in Configs
    /\ registered = <<>>
    /\ stream = NoCall

NextMcp == CreateMCPServer \/ PostRoot \/ GetMetadata \/ NotFound

SpecMcp == InitMcp /\ [][NextMcp]_vars

(***************************************************************************)
(* The specification's vocabulary, used to state the claims                *)
(***************************************************************************)
Generated == pc = "generated"

\* the schema a $ref designates: the last part of the reference, as written
RefTarget(ref) ==
    LET parts == splitSlash(ref, <<>>)
    IN  parts[Len(parts)]

RECURSIVE RefsIn(_)
RECURSIVE RefsInAll(_)
\* the schema names a schema references through $ref, properties, items and
\* oneOf/anyOf/allOf members, without entering the referenced schemas
RefsIn(schema) ==
    (IF Has(schema, "ref") THEN {RefTarget(schema.ref)} ELSE {})
    \cup (IF Has(schema, "properties")
          THEN RefsInAll([i \in DOMAIN schema.properties |-> schema.properties[i].schema])
          ELSE {})
    \cup (IF Has(schema, "items") THEN RefsIn(schema.items) ELSE {})
    \cup (IF Has(schema, "oneOf") THEN RefsInAll(schema.oneOf) ELSE {})
    \cup (IF Has(schema, "anyOf") THEN RefsInAll(schema.anyOf) ELSE {})
    \cup (IF Has(schema, "allOf") THEN RefsInAll(schema.allOf) ELSE {})

RefsInAll(ss) == UNION { RefsIn(ss[i]) : i \in DOMAIN ss }

\* the names reachable from a set of names along the references of the
\* component schemas
RECURSIVE RefClosure(_)
RefClosure(names) ==
    LET next == names \cup UNION { RefsIn(GetByName(rawSchemas, n).schema)
                                   : n \in names \cap NamesOf(rawSchemas) }
    IN  IF next = names THEN names ELSE RefClosure(next)

\* the component schemas some operation references, directly or transitively
ReachableFromOperations ==
    RefClosure(UNION { RefsInAll(OperationSchemas(operations[i])) : i \in DOMAIN operations })
    \cap NamesOf(rawSchemas)

\* a component schema that references itself, directly or through other schemas
OnReferenceCycle(n) ==
    HasName(rawSchemas, n) /\ n \in RefClosure(RefsIn(GetByName(rawSchemas, n).schema))

\* every reference of the document is read by extractRefName as the name it
\* is written with
AllReferences ==
    UNION { RefsInAll(OperationSchemas(operations[i])) : i \in DOMAIN operations }
    \cup UNION { RefsIn(rawSchemas[i].schema) : i \in DOMAIN rawSchemas }
NamesReadLiterally == \A n \in AllReferences : StripNonAlnum(n) = n

TranslationFinished == cursor > Len(rawSchemas)
EmittedSchemaNames == { schemaFiles[i].name : i \in DOMAIN schemaFiles }
EmittedSchemaModules == { schemaFiles[i].file : i \in DOMAIN schemaFiles }

(***************************************************************************)
(* C1: cycle safety of the translation                                     *)
(***************************************************************************)
\* C1: once every component schema has been handed to the translator, each
\* schema that lies on a reference cycle (A -> A, or A -> B -> A) has an entry
\* in the translated-schema table.
C1_CyclicSchemasTranslated ==
    TranslationFinished =>
        \A i \in DOMAIN rawSchemas :
            OnReferenceCycle(rawSchemas[i].name) => HasName(schemas, rawSchemas[i].name)

(***************************************************************************)
(* C2, C3: the reachability pruner                                         *)
(***************************************************************************)
\* C2: in a run in which every component schema was translated and every
\* reference is read as the name it is written with, every schema reachable from an operation's request or response schema, also through
\* other component schemas, is in the pruned set and gets a schema file.
C2_ReachableSchemasKept ==
    (Generated /\ NamesOf(schemas) = NamesOf(rawSchemas) /\ NamesReadLiterally) =>
        ReachableFromOperations \subseteq EmittedSchemaNames

\* C3: a component schema that no operation references, directly or
\* transitively, is not in the pruned set and has no schema file.
C3_UnreferencedSchemasDropped ==
    Generated => EmittedSchemaNames \subseteq ReachableFromOperations

(***************************************************************************)
(* C4: readOnly properties and the method-slot schemas                     *)
(***************************************************************************)
\* the property names a component schema flags readOnly: true
ReadOnlyKeys(name) ==
    LET schema == GetByName(rawSchemas, name).schema
    IN  IF Has(schema, "properties")
        THEN { schema.properties[i].key : i \in
                 { j \in DOMAIN schema.properties :
                     Has(schema.properties[j].schema, "readOnly")
                     /\ schema.properties[j].schema.readOnly } }
        ELSE {}

\* the schema file a generated identifier resolves to
FilesExporting(ident) == { i \in DOMAIN schemaFiles : schemaFiles[i].exportVar = ident }

\* the fields of a schema file's object
FieldsOf(file) ==
    IF Has(file.body, "properties")
    THEN { file.body.properties[i].key : i \in DOMAIN file.body.properties }
    ELSE {}

\* ... and those that accept a value from the caller: not wrapped in .readonly()
RECURSIVE IsReadonlyCode(_)
IsReadonlyCode(code) ==
    \/ code.code = ".readonly()"
    \/ code.code = ".optional()" /\ IsReadonlyCode(code.arg)

WritableFieldsOf(file) ==
    IF Has(file.body, "properties")
    THEN { file.body.properties[i].key : i \in
             { j \in DOMAIN file.body.properties :
                 ~IsReadonlyCode(file.body.properties[j].value) } }
    ELSE {}

\* the method entries of every generated resource module
AllMethodEntries ==
    UNION { Range(resourceFiles[i].code.methods) : i \in DOMAIN resourceFiles }

\* method entries whose inputSchema is a reference to a schema file
EntriesWithSchema(slots) ==
    { e \in AllMethodEntries : e.slot \in slots /\ Has(e, "inputSchema")
                               /\ Has(e.inputSchema, "ident") }

\* C4: a property flagged readOnly: true is never a writable field of the
\* schema of a create or update slot, and is a field of the schema of a get slot.
C4_ReadOnlyNotWritable ==
    Generated =>
        /\ \A e \in EntriesWithSchema({"create", "update"}) :
             \A i \in FilesExporting(e.inputSchema.ident) :
                 \/ e.inputSchema.readonly
                 \/ ReadOnlyKeys(schemaFiles[i].name) \cap WritableFieldsOf(schemaFiles[i]) = {}
        /\ \A e \in EntriesWithSchema({"get", "list"}) :
             \A i \in FilesExporting(e.inputSchema.ident) :
                 ReadOnlyKeys(schemaFiles[i].name) \subseteq FieldsOf(schemaFiles[i])

(***************************************************************************)
(* C5: grouping of operations into resources                               *)
(***************************************************************************)
\* the operations grouped under a resource name
GroupedUnder(op, n) ==
    \E i \in DOMAIN resourceGroups :
        resourceGroups[i].name = n /\ op \in Range(resourceGroups[i].ops)
ResourceNames == { resourceFiles[i].code.name : i \in DOMAIN resourceFiles }

\* /X or /X/{p}
IsCollectionPath(parts) ==
    \/ Len(parts) = 1 /\ ~IsParam(parts[1])
    \/ Len(parts) = 2 /\ ~IsParam(parts[1]) /\ IsParam(parts[2])
\* /X/{p}/Y
IsNestedPath(parts) ==
    Len(parts) = 3 /\ ~IsParam(parts[1]) /\ IsParam(parts[2]) /\ ~IsParam(parts[3])

CanonicalName(n) == toValidIdentifier(toSnakeCase(toLowerCase(n)))
ReservedNames == { <<"r","e","s","o","u","r","c","e">>, <<"a","p","i">>, <<>> }

PathsOf(ops) == { ops[i].path : i \in DOMAIN ops }

IsKnown(n) == n # NoSchema /\ HasName(schemas, n)

\* the names a response schema offers: the referenced schema, the referenced
\* item schema of an array, or the referenced members of a union, in order
OfferedNames(schema) ==
    IF Has(schema, "ref") THEN <<extractRefName(schema.ref)>>
    ELSE IF Has(schema, "type") /\ schema.type = "array" /\ Has(schema, "items")
            /\ Has(schema.items, "ref")
         THEN <<extractRefName(schema.items.ref)>>
    ELSE IF Has(schema, "oneOf") \/ Has(schema, "anyOf")
         THEN LET members == IF Has(schema, "oneOf") THEN schema.oneOf ELSE schema.anyOf
                  refs == SelectSeq(members, LAMBDA m : Has(m, "ref"))
              IN  [i \in DOMAIN refs |-> extractRefName(refs[i].ref)]
    ELSE <<>>

\* a response resolves to n: n is the first offered name that is known
ResolvesTo(response, n) ==
    /\ HasJsonSchema(response)
    /\ LET names == OfferedNames(response.schema)
       IN  \E k \in DOMAIN names :
              /\ names[k] = n /\ IsKnown(n)
              /\ \A j \in 1..(k - 1) : ~IsKnown(names[j])
Resolves(response) == \E n \in NamesOf(schemas) : ResolvesTo(response, n)

\* the resource modules generated from exactly one operation, which has responses
SingleOperationResources ==
    { i \in DOMAIN resourceFiles :
        Len(resourceFiles[i].ops) = 1 /\ Has(resourceFiles[i].ops[1], "responses") }

\* the resource-level schema of a module is the schema named n
HasPrimary(i, n) ==
    Has(resourceFiles[i].code.schema, "name") /\ resourceFiles[i].code.schema.name = n
Unresolved(i) == Has(resourceFiles[i].code.schema, "fallback")

\* the schema of a response is an array of the component schema n
IsArrayOfComponent(response, n) ==
    /\ HasJsonSchema(response)
    /\ Has(response.schema, "type") /\ response.schema.type = "array"
    /\ Has(response.schema, "items") /\ Has(response.schema.items, "ref")
    /\ RefTarget(response.schema.items.ref) = n
    /\ HasName(rawSchemas, n)

\* C6: an operation whose 200 response is an array of a component schema
\* resolves to that schema through the array-unwrap rule and is never left
\* unresolved.
C6_ArrayOfComponentIsPrimary ==
    Generated =>
        \A i \in SingleOperationResources :
            LET responses == resourceFiles[i].ops[1].responses
            IN  \A k \in DOMAIN responses : \A n \in NamesOf(rawSchemas) :
                    (responses[k].code = 200 /\ IsArrayOfComponent(responses[k], n))
                        => HasPrimary(i, n)

\* C6, over the schemas the translation produced: the 200 response decides
\* the primary schema whenever it resolves (direct reference, array of a
\* reference, first known union member); otherwise the resolving 2xx response
\* with the lowest status code decides; the operation is left unresolved only
\* if no 2xx response resolves.
C6_PrimarySchemaOrder ==
    Generated =>
        \A i \in SingleOperationResources :
            LET responses == resourceFiles[i].ops[1].responses
                r200 == { k \in DOMAIN responses : responses[k].code = 200 }
                others == { k \in DOMAIN responses :
                              responses[k].code \in 201..299 /\ Resolves(responses[k]) }
            IN  /\ \A k \in r200 : \A n \in NamesOf(schemas) :
                      ResolvesTo(responses[k], n) => HasPrimary(i, n)
                /\ (\A k \in r200 : ~Resolves(responses[k])) =>
                      \A k \in others :
                          (\A j \in others : responses[k].code <= responses[j].code) =>
                              \A n \in NamesOf(schemas) :
                                  ResolvesTo(responses[k], n) => HasPrimary(i, n)
                /\ Unresolved(i) <=>
                      /\ \A k \in r200 : ~Resolves(responses[k])
                      /\ others = {}

\* C6 witness: a 200 response that is an array of a known schema next to a 201
\* response that resolves differently; the array decides
C6_Witness ==
    /\ Generated
    /\ \E i \in SingleOperationResources :
          LET responses == resourceFiles[i].ops[1].responses
          IN  \E a, b \in DOMAIN responses :
                /\ responses[a].code = 200 /\ responses[b].code = 201
                /\ Has(responses[a].schema, "type")
                /\ ResolvesTo(responses[a], NameA) /\ ResolvesTo(responses[b], NameB)
                /\ HasPrimary(i, NameA)

\* C6 witness of the fallback order: the 200 response does not resolve, the 202
\* response comes first in the document and the 201 response decides
C6_WitnessAscending ==
    /\ Generated
    /\ \E i \in SingleOperationResources :
          LET responses == resourceFiles[i].ops[1].responses
          IN  \E a, b \in DOMAIN responses :
                /\ a < b /\ responses[a].code = 202 /\ responses[b].code = 201
                /\ ResolvesTo(responses[a], NameB) /\ ResolvesTo(responses[b], NameA)
                /\ HasPrimary(i, NameA)

(***************************************************************************)
(* C7: the resource-level schema when GET and POST/PUT disagree            *)
(***************************************************************************)
OpsWithVerb(ops, verbs) == { k \in DOMAIN ops : ops[k].method \in verbs }

\* C7: when a resource has a GET operation and a POST or PUT operation with
\* different primary schemas, the resource-level schema is the primary schema
\* of one of its GET operations.
C7_ResourceSchemaFromGet ==
    Generated =>
        \A i \in DOMAIN resourceFiles :
            LET ops == resourceFiles[i].ops
                gets == { PrimaryOfOperation(ops[k], schemas) : k \in OpsWithVerb(ops, {"GET"}) }
                          \ {NoSchema}
                writes == { PrimaryOfOperation(ops[k], schemas)
                            : k \in OpsWithVerb(ops, {"POST", "PUT"}) } \ {NoSchema}
            IN  (\E g \in gets : \E w \in writes : g # w)
                    => \E g \in gets : HasPrimary(i, g)

(***************************************************************************)
(* C8, C9: the method table of a resource                                  *)
(***************************************************************************)
HasPathParameter(path) == "{" \in Range(path)

\* the slot the mapping assigns to an operation
SlotOf(op) ==
    CASE op.method = "GET" /\ ~HasPathParameter(op.path) -> "list"
      [] op.method = "GET"    -> "get"
      [] op.method = "POST"   -> "create"
      [] op.method = "PUT"    -> "update"
      [] op.method = "DELETE" -> "delete"
      [] OTHER -> "custom"

\* C8: every operation in a CRUD slot is in the slot of its verb, and a GET
\* whose path has no path parameter is in the list slot, not the get slot.
C8_VerbToSlot ==
    Generated =>
        \A e \in AllMethodEntries :
            e.slot \in {"get", "list", "create", "update", "delete"}
                => e.slot = SlotOf(e.operation)

\* C9: every operation of a generated resource is in its method table.
C9_NoOperationDiscarded ==
    Generated =>
        \A i \in DOMAIN resourceFiles :
            \A k \in DOMAIN resourceFiles[i].ops :
                \E m \in DOMAIN resourceFiles[i].code.methods :
                    resourceFiles[i].code.methods[m].operation = resourceFiles[i].ops[k]

(***************************************************************************)
(* C10: resource modules import only emitted schema files                  *)
(***************************************************************************)
ImportedModules(i) ==
    { resourceFiles[i].code.imports[k].module : k \in DOMAIN resourceFiles[i].code.imports }

\* C10: every schema module a generated resource module imports is one of the
\* schema files emitted in the same run.
C10_ImportsAreEmitted ==
    Generated =>
        \A i \in DOMAIN resourceFiles : ImportedModules(i) \subseteq EmittedSchemaModules

\* C10 witness: a resource module that imports a schema found by unwrapping an
\* array response, and one that imports a union member
C10_Witness ==
    /\ Generated
    /\ \E i \in DOMAIN resourceFiles :
          /\ ImportedModules(i) # {}
          /\ \E k \in DOMAIN resourceFiles[i].ops :
                /\ Has(resourceFiles[i].ops[k], "responses")
                /\ \E r \in DOMAIN resourceFiles[i].ops[k].responses :
                      LET response == resourceFiles[i].ops[k].responses[r]
                      IN  Has(response, "schema") /\ ~Has(response.schema, "ref")
                          /\ Resolves(response)

(***************************************************************************)
(* C11: the imports of a resource module are the schemas it uses           *)
(***************************************************************************)
\* the schema identifiers the body of a resource module mentions: the
\* resource-level schema and the inputSchema of every method slot
UsedSchemaIdents(i) ==
    LET code == resourceFiles[i].code
    IN  (IF Has(code.schema, "ident") THEN {code.schema.ident} ELSE {})
        \cup { code.methods[k].inputSchema.ident :
                 k \in { j \in DOMAIN code.methods :
                           Has(code.methods[j], "inputSchema")
                           /\ Has(code.methods[j].inputSchema, "ident") } }

ImportedSymbols(i) ==
    { resourceFiles[i].code.imports[k].symbol : k \in DOMAIN resourceFiles[i].code.imports }

\* C11: in every generated resource module the set of imported schemas equals
\* the set of schemas the module body uses, and no schema is imported twice.
C11_ImportsAreExact ==
    Generated =>
        \A i \in DOMAIN resourceFiles :
            /\ ImportedSymbols(i) = UsedSchemaIdents(i)
            /\ \A a, b \in DOMAIN resourceFiles[i].code.imports :
                  resourceFiles[i].code.imports[a] = resourceFiles[i].code.imports[b] => a = b

(***************************************************************************)
(* C12: a schema of unrecognized shape                                     *)
(***************************************************************************)
UnrecognizedShape(schema) ==
    \A f \in {"type", "ref", "enum", "oneOf", "anyOf", "allOf"} : ~Has(schema, f)

UnrecognizedComponents == { i \in DOMAIN rawSchemas : UnrecognizedShape(rawSchemas[i].schema) }

\* every warning the run has recorded: those of the schemas and those of the
\* resource modules
RunWarnings ==
    allWarnings \o FlattenSeq([i \in DOMAIN resourceFiles |-> resourceFiles[i].code.warnings])

\* C12: when exactly one component schema has an unrecognized shape, the run
\* completes, that schema is translated to the unknown placeholder and exactly
\* one warning is recorded.
C12_OneWarningForUnrecognizedShape ==
    (Generated /\ Cardinality(UnrecognizedComponents) = 1) =>
        /\ \A i \in UnrecognizedComponents :
              /\ HasName(schemas, rawSchemas[i].name)
              /\ GetByName(schemas, rawSchemas[i].name).schema = ZAny
        /\ Len(RunWarnings) = 1

(***************************************************************************)
(* C13: strict mode                                                        *)
(***************************************************************************)
\* the references of the component schemas that name no component
UnresolvableRefs ==
    UNION { RefsIn(rawSchemas[i].schema) : i \in DOMAIN rawSchemas } \ NamesOf(rawSchemas)

\* the translation has to substitute the unknown placeholder somewhere
NeedsPlaceholder == UnresolvableRefs # {} \/ UnrecognizedComponents # {}

\* C13: with strict mode enabled, a substitution of the unknown placeholder
\* (unresolvable $ref or unrecognized shape) makes the run fail: the
\* translation never completes and nothing is generated.
C13_StrictModeIsFatal ==
    (strictMode /\ NeedsPlaceholder) => pc \in {"convertZod", "failed"}

(***************************************************************************)
(* C17: warnings are embedded in the affected file                         *)
(***************************************************************************)
\* the components whose translation recorded the warning w: those that hold
\* the reference the warning is about
RecordedFor(w) ==
    { i \in DOMAIN rawSchemas : w.schema \in RefsIn(rawSchemas[i].schema) }

VersionIs3x(d) ==
    Has(d, "openapi") /\ Len(d.openapi) >= 2 /\ SubSeq(d.openapi, 1, 2) = <<"3", ".">>

HasInfo(d) == Has(d, "info")

HasPathEntry(d) == Has(d, "paths") /\ d.paths # <<>>

LacksSchemas(d) == ~Has(d, "components") \/ ~Has(d.components, "schemas")

\* the run has been aborted by parseOpenAPI
LoadFailed == pc = "failed" /\ Has(thrown, "message")

\* C14: a decoded document is rejected exactly when its version does not
\* start with "3.", or it has no info, or it has no path entry; a document
\* without components/schemas that has the three fields is never rejected and
\* its run goes on to translation, generation and emission.
C14_ValidationRejectsExactly ==
    (source.kind = "document" /\ (pc # "parse" \/ runs > 0)) =>
        /\ LoadFailed <=>
              ~(VersionIs3x(source.spec) /\ HasInfo(source.spec) /\ HasPathEntry(source.spec))
        /\ (pc = "done" /\ LacksSchemas(source.spec)) =>
              \E e \in disk : e.path = InDir(".", <<"server.js">>) /\ Has(e.content, "resources")

\* a document without components has been compiled to the end
C14_Witness ==
    /\ pc = "done"
    /\ source.kind = "document"
    /\ ~Has(source.spec, "components")
    /\ \E e \in disk : e.path.dir = "resources" /\ e.path.file # <<>>

(***************************************************************************)
(* C15: a load failure aborts the run                                      *)
(***************************************************************************)
\* the source cannot be loaded: it cannot be read, or decoded, or the
\* document lacks a required field
Unloadable ==
    \/ source.kind \in {"unreachable", "undecodable"}
    \/ ~(VersionIs3x(source.spec) /\ HasInfo(source.spec) /\ HasPathEntry(source.spec))

\* C15: when the specification cannot be loaded the run never gets past the
\* load step: it fails there, no schema is translated, nothing is generated
\* and the output directory holds what it held before the run.
C15_LoadFailureAborts ==
    Unloadable =>
        /\ pc \in {"parse", "failed"}
        /\ pc = "failed" => LoadFailed
        /\ schemas = <<>> /\ cursor = 1
        /\ schemaFiles = <<>> /\ resourceFiles = <<>>
        /\ disk \in InitialDisks
        /\ runs = 0

\* an invalid document that has schemas to translate has been rejected
C15_Witness ==
    /\ LoadFailed
    /\ source.kind = "document"
    /\ ComponentSchemas(source.spec) # <<>>
    /\ Has(source.spec, "paths") /\ source.spec.paths # <<>>

(***************************************************************************)
(* C16: a write failure during emission                                    *)
(***************************************************************************)
\* the run has been aborted by a failed file-system call
WriteFailed == pc = "failed" /\ Has(thrown, "syscall")

\* the artifacts the run intends to write, in the order of emission
IntendedArtifacts ==
    SelectSeq(FileOperations(MainFiles(source.serverName, operations, schemas, resourceGroups),
                             schemaFiles, resourceFiles),
              LAMBDA o : o.op = "writeFile")

\* an artifact of this run is in the output directory
IsWritten(artifact) == [path |-> artifact.path, content |-> artifact.content] \in disk

\* what the failure gives the caller: the rejected call and the console
ReportsAsWritten(artifact) ==
    \/ \E l \in DOMAIN console : console[l] = [line |-> "Wrote", path |-> artifact.path]
    \/ Has(thrown, "written") /\ artifact.path \in thrown.written

\* C16: in a first run, when a file-system call of the emission fails, no
\* artifact after the failing one is written, the run fails with the error,
\* and every artifact that was written is reported to the caller as written;
\* a run that completes has written every intended artifact.
C16_WriteFailureReportsWritten ==
    LET artifacts == IntendedArtifacts
    IN  /\ (WriteFailed /\ runs = 0) =>
              /\ \A i, j \in DOMAIN artifacts :
                    (i < j /\ IsWritten(artifacts[j])) => IsWritten(artifacts[i])
              /\ \E j \in DOMAIN artifacts : ~IsWritten(artifacts[j])
              /\ \A i \in DOMAIN artifacts :
                    IsWritten(artifacts[i]) => ReportsAsWritten(artifacts[i])
        /\ pc = "done" => \A i \in DOMAIN artifacts : IsWritten(artifacts[i])

\* the same without the report: the emission stops at the failing call
C16_EmissionStopsAtFailure ==
    LET artifacts == IntendedArtifacts
    IN  /\ (WriteFailed /\ runs = 0) =>
              /\ \A i, j \in DOMAIN artifacts :
                    (i < j /\ IsWritten(artifacts[j])) => IsWritten(artifacts[i])
              /\ \E j \in DOMAIN artifacts : ~IsWritten(artifacts[j])
        /\ pc = "done" => \A i \in DOMAIN artifacts : IsWritten(artifacts[i])

(***************************************************************************)
(* C18: reserved and empty resource names                                  *)
(***************************************************************************)
\* the operations whose computed resource name is reserved or empty
DroppedOperations ==
    { i \in DOMAIN operations : ResourceNameOf(operations[i].path) \in ReservedNames }

\* no resource carries the operation or its computed name
NotEmitted(i) ==
    /\ \A k \in DOMAIN resourceGroups :
          /\ resourceGroups[k].name # ResourceNameOf(operations[i].path)
          /\ operations[i] \notin Range(resourceGroups[k].ops)
    /\ \A k \in DOMAIN resourceFiles : operations[i] \notin Range(resourceFiles[k].ops)

\* the drop is recorded: a warning of the run, or a line of the console,
\* names the path
DropRecorded(i) ==
    \/ \E k \in DOMAIN RunWarnings :
          Has(RunWarnings[k], "path") /\ RunWarnings[k].path = operations[i].path
    \/ \E l \in DOMAIN console :
          Has(console[l], "name") /\ console[l].path = operations[i].path

\* C18: once the code is generated, an operation whose computed resource
\* name is empty or reserved belongs to no emitted resource, and its drop is
\* recorded.
C18_ReservedNameDroppedWithWarning ==
    pc \in {"generated", "done"} =>
        \A i \in DroppedOperations : NotEmitted(i) /\ DropRecorded(i)

\* the same without the record: the resource is not emitted
C18_ReservedNameNotEmitted ==
    pc \in {"generated", "done"} => \A i \in DroppedOperations : NotEmitted(i)

OnMcp(i, method) ==
    handled[i].request.path = "/mcp" /\ handled[i].request.method = method

\* C20: every GET and every DELETE on /mcp is answered 405 without reaching
\* the transport, and every POST on /mcp that carries a JSON-RPC message is
\* handed to the transport and answered by it.
C20_McpMethods ==
    \A i \in DOMAIN handled :
        /\ (OnMcp(i, "GET") \/ OnMcp(i, "DELETE")) =>
              handled[i].response.status = 405 /\ ~handled[i].transport
        /\ (OnMcp(i, "POST") /\ IsJson(handled[i].request.body)) =>
              /\ handled[i].transport
              /\ handled[i].response.by = "transport"
              /\ handled[i].response.status \in {200, 202}

\* the same for GET and DELETE only
C20_GetAndDeleteRejected ==
    \A i \in DOMAIN handled :
        (OnMcp(i, "GET") \/ OnMcp(i, "DELETE")) =>
            handled[i].response.status = 405 /\ ~handled[i].transport

(***************************************************************************)
(* C21: memoization by name                                                *)
(***************************************************************************)
\* convertOpenAPISchemasToZod has returned
ConverterDone == pc \in {"convert", "generated"}

\* a translated node without its optional / readonly wrappers
RECURSIVE StripWrappers(_)
StripWrappers(node) ==
    IF Has(node, "innerType") THEN StripWrappers(node.innerType) ELSE node

\* the node translated for the property, when its owner was translated
OwnerTranslated(i) ==
    /\ HasName(schemas, rawSchemas[i].name)
    /\ Has(GetByName(schemas, rawSchemas[i].name).schema, "shape")

NodeOfProperty(i, k) ==
    StripWrappers(GetByName(schemas, rawSchemas[i].name).schema.shape[k].value)

\* C21: once the schemas are translated, a property that references a
\* component by name holds the node translated for that component: an object
\* node when the component is an object schema, and the very node recorded
\* under the component's name when there is one.
C21_MemoizedByName ==
    ConverterDone =>
        \A i \in DOMAIN rawSchemas :
            (Has(rawSchemas[i].schema, "properties") /\ OwnerTranslated(i)) =>
                \A k \in DOMAIN rawSchemas[i].schema.properties :
                    LET prop == rawSchemas[i].schema.properties[k].schema
                    IN  (Has(prop, "ref") /\ RefTarget(prop.ref) \in NamesOf(rawSchemas)) =>
                          LET target == RefTarget(prop.ref)
                              raw == GetByName(rawSchemas, target).schema
                          IN  /\ (Has(raw, "type") /\ raw.type = "object") =>
                                    NodeOfProperty(i, k).z = "object"
                              /\ HasName(schemas, target) =>
                                    NodeOfProperty(i, k) = GetByName(schemas, target).schema

(***************************************************************************)
(* C22: optional properties                                                *)
(***************************************************************************)
\* the names in the `required` list of a schema; none when it has no list
RequiredOf(schema) == IF Has(schema, "required") THEN Range(schema.required) ELSE {}

IsOptionalNode(node) == Has(node, "z") /\ node.z = "optional"

\* C22: in every translated object schema a property is optional exactly
\* when its name is not in the schema's required list; without a required
\* list every property is optional.
C22_OptionalIffNotRequired ==
    \A i \in DOMAIN rawSchemas :
        (Has(rawSchemas[i].schema, "properties") /\ OwnerTranslated(i)) =>
            LET shape == GetByName(schemas, rawSchemas[i].name).schema.shape
            IN  \A k \in DOMAIN shape :
                    IsOptionalNode(shape[k].value)
                        <=> shape[k].key \notin RequiredOf(rawSchemas[i].schema)


(***************************************************************************)
(* C23: $ref to a schema that does not exist                               *)
(***************************************************************************)
\* the warning log of the run names the schema
Warned(name) == \E k \in DOMAIN converterWarnings : converterWarnings[k].schema = name

\* the references of a schema that name no schema of the table
DanglingIn(schema) == RefsIn(schema) \ NamesOf(rawSchemas)

\* the unknown placeholder stands where the schema has its dangling
\* reference: the node itself, the item type of the array, or a member of
\* the union
PlaceholderAt(schema, node) ==
    IF Has(schema, "ref") THEN node = ZAny
    ELSE IF Has(schema, "items") THEN node.z = "array" /\ node.type = ZAny
    ELSE IF Has(schema, "oneOf") THEN
        \/ node = ZAny
        \/ node.z = "union" /\ ZAny \in Range(node.options)
    ELSE TRUE

\* C23: once the schemas are translated, every $ref that names no schema of
\* the table, at the top level, in a property, in the items of an array or
\* in a union member, has the unknown placeholder at its position and a
\* warning in the warning log of the run, and the translation did not throw.
C23_DanglingRefWarned ==
    ConverterDone =>
        \A i \in DOMAIN rawSchemas :
            /\ (~IsNull(rawSchemas[i].schema) /\ Has(rawSchemas[i].schema, "ref")
                    /\ DanglingIn(rawSchemas[i].schema) # {}) =>
                  /\ HasName(schemas, rawSchemas[i].name) =>
                        GetByName(schemas, rawSchemas[i].name).schema = ZAny
                  /\ \A name \in DanglingIn(rawSchemas[i].schema) : Warned(name)
            /\ (~IsNull(rawSchemas[i].schema) /\ Has(rawSchemas[i].schema, "properties")
                    /\ OwnerTranslated(i)) =>
                  \A k \in DOMAIN rawSchemas[i].schema.properties :
                      LET prop == rawSchemas[i].schema.properties[k].schema
                      IN  DanglingIn(prop) # {} =>
                            /\ PlaceholderAt(prop, NodeOfProperty(i, k))
                            /\ \A name \in DanglingIn(prop) : Warned(name)


(***************************************************************************)
(* C24: only HTTP verbs yield operations                                   *)
(***************************************************************************)
\* the methods of the HTTP verbs a path item may carry
HttpVerbs == {"GET", "PUT", "POST", "DELETE", "OPTIONS", "HEAD", "PATCH", "TRACE"}

\* C24: every operation record of the extractor comes from a key of a path
\* item that is an HTTP verb.
C24_OnlyVerbsYieldOperations ==
    \A i \in DOMAIN operations : operations[i].method \in HttpVerbs


(***************************************************************************)
(* C27: inline schemas are translated by their own definition              *)
(***************************************************************************)
\* an inline schema of a primitive string
IsInlineString(schema) ==
    ~Has(schema, "ref") /\ ~Has(schema, "enum") /\ Has(schema, "type") /\ schema.type = "string"

\* C27: once the schemas are translated, every inline string property of a
\* translated object schema is a string node, whichever other schema
\* declares a property of the same name.
C27_InlineByOwnDefinition ==
    ConverterDone =>
        \A i \in DOMAIN rawSchemas :
            (~IsNull(rawSchemas[i].schema) /\ Has(rawSchemas[i].schema, "properties")
                /\ OwnerTranslated(i)) =>
                \A k \in DOMAIN rawSchemas[i].schema.properties :
                    IsInlineString(rawSchemas[i].schema.properties[k].schema) =>
                        NodeOfProperty(i, k) = [z |-> "string"]


(***************************************************************************)
(* C28: one identifier per schema                                          *)
(***************************************************************************)
\* the identifier a resource module refers to is imported by the module and
\* exported by a schema file
C28_IdentifierImportedAndExported ==
    Generated =>
        \A i \in DOMAIN resourceFiles : \A ident \in UsedSchemaIdents(i) :
            ident \in ImportedSymbols(i) /\ FilesExporting(ident) # {}

\* the name a $ref is looked up under is the name the schema is stored under
C28_LookupNameIsStoredName ==
    Generated => \A i \in DOMAIN operations :
        Has(operations[i], "responses") =>
            \A r \in DOMAIN operations[i].responses :
                LET response == operations[i].responses[r]
                IN  (Has(response, "schema") /\ Has(response.schema, "ref")
                        /\ RefTarget(response.schema.ref) \in NamesOf(rawSchemas)) =>
                      extractRefName(response.schema.ref) = RefTarget(response.schema.ref)

\* C28: the identifier a generated resource module uses for a schema is the
\* one the module imports and the schema file exports, and the name a $ref
\* is looked up under equals the name the schema is stored under.
C28_OneIdentifierPerSchema ==
    C28_IdentifierImportedAndExported /\ C28_LookupNameIsStoredName


(***************************************************************************)
(* C26: the notification stream sends `count` notifications and returns    *)
(***************************************************************************)
\* the number of notifications `count` stands for
NotificationsFor(count) == IF count = 0 THEN 100 ELSE count

\* C26: a call of start-notification-stream never goes beyond the number of
\* notifications its count stands for (100 for 0), and has gone through
\* exactly that many when it returns.
C26_StreamSendsCount ==
    (pc \in {"stream", "returned"}) =>
        /\ stream.counter <= NotificationsFor(stream.count)
        /\ pc = "returned" => stream.counter = NotificationsFor(stream.count)


(***************************************************************************)
(* C25: only verified Bearer tokens reach the MCP request handler          *)
(***************************************************************************)
\* the request is a POST to the route of the MCP request handler
IsMcpPost(request) == request.method = "POST" /\ request.path = "/"

\* the request carries an Authorization header with a Bearer token
CarriesBearer(request) ==
    /\ Has(request, "authorization")
    /\ Len(request.authorization) >= 7
    /\ toLowerCase(SubSeq(request.authorization, 1, 7)) = BearerPrefix

\* the Bearer token of the request is a token the issuer signed, issued by
\* it, not expired, and for this server when the server has a URL
CarriesVerifiedToken(request) ==
    /\ CarriesBearer(request)
    /\ LET claims == TokenClaims(SubSeq(request.authorization, 8, Len(request.authorization)))
       IN  /\ ~IsNull(claims)
           /\ claims.key = config.auth.issuer
           /\ claims.iss = config.auth.issuer
           /\ ~claims.expired
           /\ config.serverUrl = "" \/ claims.aud = config.serverUrl

AuthConfigured == config # NoConfig /\ Has(config, "auth")

Created == config # NoConfig /\ pc \in {"listening", "failed"}

\* some resource declares a relation whose field is not a key of its schema
\* or whose target type is not the name of a configured resource
HasBadRelation ==
    \E i \in DOMAIN config.resources :
        /\ Has(config.resources[i], "relations")
        /\ \E k \in DOMAIN config.resources[i].relations :
              \/ config.resources[i].relations[k].field \notin config.resources[i].shape
              \/ config.resources[i].relations[k].type \notin NamesOf(config.resources)

RegisteredTools ==
    { registered[i].name : i \in { j \in DOMAIN registered : registered[j].kind = "tool" } }

\* C30: every tool name in the related_tools of a type resource is the name
\* of a tool createMCPServer has registered.
C30_RelatedToolsAreRegistered ==
    (config # NoConfig /\ pc = "listening") =>
        \A i \in DOMAIN registered :
            Has(registered[i], "related_tools") =>
                Range(registered[i].related_tools) \subseteq RegisteredTools

====
